---- MODULE Spec2Model ----
(***************************************************************************)
(* Model of the Obsidian-MindForge plugin: the DataManager of the          *)
(* cognitive-weight plugin (weight decay, interaction tracking, text       *)
(* complexity, link centrality, stage classification, memory strength)     *)
(* and the review selection built on it.                                    *)
(*                                                                          *)
(* Numbers.  The program computes with IEEE doubles; the model computes    *)
(* with fixed-point integers of four decimal places (1.0 is S = 10000).    *)
(* Math.exp, Math.sqrt, Math.sin, Math.tanh, Math.log and Math.log2 are    *)
(* evaluated by series on that grid, accurate to a few units of the last   *)
(* place.  Time is counted in whole days since the epoch.                  *)
(***************************************************************************)
EXTENDS Integers, Sequences, FiniteSets, TLC

(***************************************************************************)
(* Fixed-point arithmetic                                                  *)
(***************************************************************************)
S == 10000

\* floor(a * b / S), with a split into its whole and fractional parts so
\* that the product of a large a stays within TLC's integers
Mul(a, b) == (a \div S) * b + ((a % S) * b) \div S

Div(a, b) == (a * S) \div b

Max(a, b) == IF a >= b THEN a ELSE b

Min(a, b) == IF a <= b THEN a ELSE b

\* Number(x.toFixed(2)) for x >= 0: round to two decimals.
Round2(x) == ((x + 50) \div 100) * 100

RECURSIVE NewtonSqrt(_, _)
NewtonSqrt(n, x) ==
    LET y == (x + n \div x) \div 2
    IN  IF y >= x THEN x ELSE NewtonSqrt(n, y)

\* floor(sqrt(n)) of a natural number
ISqrt(n) == IF n = 0 THEN 0 ELSE NewtonSqrt(n, n)

\* Math.sqrt of a whole number of days d (0 <= d <= 2147), in units of 1/S
SqrtDays(d) == ISqrt(d * 1000000) * 10

RECURSIVE ExpTaylor(_, _, _, _)
ExpTaylor(f, k, term, acc) ==
    IF k > 9 \/ term = 0 THEN acc
    ELSE LET t == (0 - (term * f)) \div (S * k)
         IN  ExpTaylor(f, k + 1, t, acc + t)

ExpMinusOne == 3679

RECURSIVE ExpNegInt(_)
ExpNegInt(n) == IF n = 0 THEN S
                ELSE IF n > 10 THEN 0
                ELSE Mul(ExpNegInt(n - 1), ExpMinusOne)

\* Math.exp(-x) for x >= 0
ExpNeg(x) == Mul(ExpNegInt(x \div S), ExpTaylor(x % S, 1, S, S))

\* Math.exp(x) for any x; Infinity is not represented (|x| stays small)
Exp(x) == IF x <= 0 THEN ExpNeg(0 - x) ELSE (S * S) \div ExpNeg(x)

\* Math.tanh(y)
Tanh(y) ==
    LET a == IF y >= 0 THEN y ELSE 0 - y
        e == ExpNeg(2 * a)
        t == Div(S - e, S + e)
    IN  IF y >= 0 THEN t ELSE 0 - t

Pi == 31416

\* sin on [0, pi/2] by its Taylor series
SinQuadrant(x) ==
    LET x2 == Mul(x, x)
        t3 == Mul(x, x2) \div 6
        t5 == Mul(t3, x2) \div 20
        t7 == Mul(t5, x2) \div 42
        t9 == Mul(t7, x2) \div 72
    IN  x - t3 + t5 - t7 + t9

\* Math.sin(x) for 0 <= x <= 2*pi
Sin(x) ==
    IF x > Pi THEN 0 - (IF x - Pi > Pi \div 2 THEN SinQuadrant(2 * Pi - x)
                                              ELSE SinQuadrant(x - Pi))
    ELSE IF x > Pi \div 2 THEN SinQuadrant(Pi - x)
    ELSE SinQuadrant(x)

LnTwo == 6931

RECURSIVE LnReduced(_, _)
\* ln of x > 0: halve or double x into [1, 2), then the atanh series
LnReduced(x, k) ==
    IF x >= 2 * S THEN LnReduced(x \div 2, k + 1)
    ELSE IF x < S THEN LnReduced(x * 2, k - 1)
    ELSE LET z  == Div(x - S, x + S)
             z2 == Mul(z, z)
             z3 == Mul(z, z2)
             z5 == Mul(z3, z2)
             z7 == Mul(z5, z2)
         IN  2 * (z + z3 \div 3 + z5 \div 5 + z7 \div 7) + k * LnTwo

\* Math.log(x) for x > 0
Ln(x) == LnReduced(x, 0)

\* Math.log2(n) for a whole number n >= 1
Log2(n) == Div(Ln(n * S), LnTwo)

(***************************************************************************)
(* State                                                                   *)
(***************************************************************************)
VARIABLES
    now,            \* Date.now(), in whole days since the epoch
    settings,       \* MyPlugin.settings (the numeric tunables)
    data,           \* DataManager.data: file path -> weight record
    memoryData,     \* DataManager.memoryData: file path -> memory record
    outcomes,       \* history: per file, every isCorrect passed to updateTestResult
    preSweep,       \* history: DataManager.data as the last sweep found it
    sweeps,         \* history: how many times applyDailyDecay has run
    vault,          \* app.vault: markdown file path -> the [[links]] of its content
    content,        \* file path -> the text of the file, a sequence of characters
    interactionDurations, \* DataManager.interactionDurations: path -> tracking
    clock,          \* the time of day, in slots of 5 seconds since midnight
    timerDue,       \* the daily-update interval: when its next tick is due
    timerRuns,      \* history: <<day, hour, minute>> of each sweep the timer started
    activeFile,     \* workspace.getActiveFile(): the path of the file in the editor
    debounce,       \* the debounced editor-change update: "idle", "armed" or "owed"
    gen,            \* file path -> the generateQuestion call for it, and its history
    batch,          \* the start-review command: its selection and its outcome
    nodes,          \* KnowledgeGraph.nodes: the nodes, in the order of the Map
    calls,          \* the addNode calls that have not returned yet
    events,         \* history: how many modify events processFile has taken up
    seen,           \* history: document path -> the number of its latest event
    reviewQueue,    \* runDailyReview: the nodes it has still to test
    sweepRun,       \* the applyDailyDecay call in flight: where it is suspended
    disk,           \* data.json, the one file behind Plugin.loadData / saveData
    savedData,      \* history: the weight map of the last DataManager.saveData
    ret             \* the last operation and what it returned

vars == <<now, settings, data, memoryData, outcomes, preSweep, sweeps, vault,
          content, interactionDurations, clock, timerDue, timerRuns,
          activeFile, debounce, gen, batch,
          nodes, calls, events, seen, reviewQueue, sweepRun,
          disk, savedData, ret>>

envVars == <<now, settings>>

weightVars == <<data, preSweep, sweeps>>

memoryVars == <<memoryData, outcomes>>

docVars == <<vault, content, interactionDurations>>

timerVars == <<clock, timerDue, timerRuns>>

\* the variables of the parts of the plugin that the actions of the weight,
\* memory and document models never touch
editorVars == <<activeFile, debounce>>

questionVars == <<gen, batch>>

\* the variables that the timer's and the editor's actions never touch
graphVars == <<nodes, calls, events, seen, reviewQueue>>

sweepVars == <<sweepRun>>

\* the calls in flight of the question generator, the knowledge graph and
\* the sweep
runVars == <<questionVars, graphVars, sweepVars>>

diskVars == <<disk, savedData>>

laterVars == <<runVars, diskVars>>

otherVars == <<timerVars, editorVars, laterVars>>

Files == {"a.md", "b.md"}

\* the clock starts on the first day of a (365-day) year, 54 years after the epoch
StartDay == 54 * 365

\* dailyUpdateTime "02:00" is kept as the pair <<hours, minutes>> that
\* split(':').map(Number) makes of it
DEFAULT_SETTINGS ==
    [decayLambda |-> 500, betaCoefficient |-> 2000, initialWeight |-> 5000,
     alpha |-> S, dailyUpdateTime |-> <<2, 0>>]

\* one slot of the clock, the period of the duration interval, in ms
MsPerSlot == 5000

\* one minute of the clock, and the period of the daily-update interval
\* (60 000 ms), in slots
SlotsPerMinute == 12

SlotsPerDay == 24 * 60 * SlotsPerMinute

\* the plugin is loaded this many slots after midnight
LoadSlot == 11

\* Date.now() at day t and time of day c, in slots since the first midnight
SlotTime(t, c) == (t - StartDay) * SlotsPerDay + c

None == [op |-> "none"]

\* no generateQuestion call has been made for the file
NoCall == [pc |-> "idle", retries |-> 0, responses |-> <<>>, error |-> "none"]

\* no applyDailyDecay call is in flight
NoSweep == [pc |-> "idle", at |-> 0, todo |-> <<>>]

\* the start-review command has not run
NoBatch == [state |-> "none", runs |-> 0, selected |-> {}, session |-> {},
            opened |-> FALSE, rejected |-> FALSE]

(***************************************************************************)
(* Memory strength: DataManager.updateTestResult, calculateMemoryStrength, *)
(* calculateEMA, stageTransition                                           *)
(***************************************************************************)
WindowSize == 100

InitialEF == 25000

MinEF == 13000

DefaultSuccessRate == 7000

NewMemory(t) ==
    [EF |-> InitialEF, consecutiveSuccess |-> 0, consecutiveFailures |-> 0,
     historicalSuccessRate |-> <<>>, lastTestResult |-> FALSE,
     lastReviewTime |-> t]

\* a streak update that forgets to reset the opposite counter
RecordStreakNoReset(d, isCorrect) ==
    IF isCorrect
    THEN [d EXCEPT !.consecutiveSuccess = @ + 1]
    ELSE [d EXCEPT !.consecutiveFailures = @ + 1]

RecordStreak(d, isCorrect) ==
    IF isCorrect
    THEN [d EXCEPT !.consecutiveSuccess = @ + 1, !.consecutiveFailures = 0]
    ELSE [d EXCEPT !.consecutiveFailures = @ + 1, !.consecutiveSuccess = 0]

\* a window that evicts only once it is already over its size
PushWindowLate(h, isCorrect) ==
    Append(IF Len(h) > WindowSize THEN Tail(h) ELSE h,
           IF isCorrect THEN 1 ELSE 0)

PushWindow(h, isCorrect) ==
    Append(IF Len(h) >= WindowSize THEN Tail(h) ELSE h,
           IF isCorrect THEN 1 ELSE 0)

updateTestResult(md, f, isCorrect, t) ==
    LET d0 == IF f \in DOMAIN md THEN md[f] ELSE NewMemory(t)
        d1 == [d0 EXCEPT !.lastReviewTime = t, !.lastTestResult = isCorrect]
        d2 == RecordStreak(d1, isCorrect)
        d3 == [d2 EXCEPT !.historicalSuccessRate = PushWindow(@, isCorrect)]
    IN  [g \in DOMAIN md \cup {f} |-> IF g = f THEN d3 ELSE md[g]]

RECURSIVE SumSeq(_)
SumSeq(h) == IF h = <<>> THEN 0 ELSE Head(h) + SumSeq(Tail(h))

SuccessRate(h) ==
    IF Len(h) > 0 THEN (SumSeq(h) * S) \div Len(h) ELSE DefaultSuccessRate

\* the easiness factor without its lower clamp
EasinessFactorUnclamped(h) ==
    LET alpha == SuccessRate(h) * 10
        beta  == (S - SuccessRate(h)) * 10
    IN  Min(InitialEF, (beta * 8000) \div (alpha + beta))

\* data.EF = Math.min(2.5, Math.max(1.3, beta * 0.8 / (alpha + beta)))
EasinessFactor(h) ==
    LET alpha == SuccessRate(h) * 10
        beta  == (S - SuccessRate(h)) * 10
    IN  Min(InitialEF, Max(MinEF, (beta * 8000) \div (alpha + beta)))

\* a strength whose failure branch has no floor
StrengthUnfloored(d) ==
    IF d.lastTestResult
    THEN Mul(d.EF, S + Mul(2000, Ln((d.consecutiveSuccess + 1) * S)))
    ELSE Mul(Mul(d.EF, 6000), S - 1000 * d.consecutiveFailures)

\* the strength computed from a record whose EF is already recomputed
Strength(d) ==
    IF d.lastTestResult
    THEN Mul(d.EF, S + Mul(2000, Ln((d.consecutiveSuccess + 1) * S)))
    ELSE Max(S, Mul(Mul(d.EF, 6000), S - 1000 * d.consecutiveFailures))

\* the record calculateMemoryStrength works on: the stored one, or a fresh
\* default (which has no lastTestResult: undefined, falsy)
MemoryOrDefault(md, f) ==
    IF f \in DOMAIN md THEN md[f]
    ELSE [EF |-> InitialEF, consecutiveSuccess |-> 0, consecutiveFailures |-> 0,
          historicalSuccessRate |-> <<>>, lastTestResult |-> FALSE]

\* calculateMemoryStrength(filePath): the returned strength, the EF it
\* computed, and memoryData after it (the stored record's EF is overwritten)
calculateMemoryStrength(md, f) ==
    LET d  == MemoryOrDefault(md, f)
        ef == EasinessFactor(d.historicalSuccessRate)
        d1 == [d EXCEPT !.EF = ef]
    IN  [strength |-> Strength(d1), EF |-> ef,
         mem |-> IF f \in DOMAIN md THEN [md EXCEPT ![f] = d1] ELSE md]

\* calculateEMA(value, filePath, period); filePath "" is the falsy path
calculateEMA(md, value, filePath, period, t) ==
    LET alpha    == IF filePath # "" THEN (2 * S) \div (period + 1) ELSE 2000
        previous == IF filePath # "" /\ filePath \in DOMAIN md /\ md[filePath].EF # 0
                    THEN md[filePath].EF ELSE value
        current  == Mul(alpha, value) + Mul(S - alpha, previous)
    IN  [value |-> Round2(current),
         mem |-> IF filePath = "" THEN md
                 ELSE IF filePath \in DOMAIN md
                      THEN [md EXCEPT ![filePath].EF = current]
                      ELSE [g \in DOMAIN md \cup {filePath} |->
                              IF g = filePath
                              THEN [NewMemory(t) EXCEPT !.EF = current]
                              ELSE md[g]]]

\* the keys of the hysteresis table and the stage each leads to
Transitions == {"novice>intermediate", "intermediate>expert", "expert>intermediate"}

TargetOf(current) ==
    IF current = "intermediate>expert" THEN "expert" ELSE "intermediate"

\* stageTransition(current, scores): the returned string and memoryData after
stageTransition(md, current, scores, t) ==
    LET e1 == calculateEMA(md, scores.complexity, "", 5, t)
        e2 == calculateEMA(e1.mem, scores.engagement, "", 5, t)
        e3 == calculateEMA(e2.mem, scores.complexity, "", 5, t)
        hysteresis ==
            [x \in Transitions |->
                IF x = "novice>intermediate"
                THEN scores.engagement > 6000 /\ e1.value > 4000
                ELSE IF x = "intermediate>expert"
                THEN scores.centrality > 7000 /\ e2.value > 5000
                ELSE e3.value > 3000 /\ scores.referenceCount > 7]
    IN  [stage |-> IF hysteresis[current] THEN TargetOf(current) ELSE current,
         mem |-> e3.mem]

(***************************************************************************)
(* Cognitive weight: DataManager.updateInteraction, calculateCurrentWeight, *)
(* applyDailyDecay                                                         *)
(***************************************************************************)
DaysPerYear == 365

\* Math.floor((now - new Date(year, 0, 0)) / 86400000): 1 on 1 January
DayOfYear(t) == ((t - StartDay) % DaysPerYear) + 1

\* a variant that puts the record's base back to the configured start
updateInteractionReset(dt, f, t, st) ==
    LET d1 == [initialWeight |-> st.initialWeight, lastUpdated |-> t,
               interactionCount |->
                   (IF f \in DOMAIN dt THEN dt[f].interactionCount ELSE 0) + 1,
               previousEngagement |->
                   IF f \in DOMAIN dt THEN dt[f].previousEngagement ELSE 0]
    IN  [g \in DOMAIN dt \cup {f} |-> IF g = f THEN d1 ELSE dt[g]]

updateInteraction(dt, f, t, st) ==
    LET d0 == IF f \in DOMAIN dt THEN dt[f]
              ELSE [initialWeight |-> st.initialWeight, lastUpdated |-> t,
                    interactionCount |-> 0, previousEngagement |-> 0]
        d1 == [d0 EXCEPT !.interactionCount = @ + 1, !.lastUpdated = t]
    IN  [g \in DOMAIN dt \cup {f} |-> IF g = f THEN d1 ELSE dt[g]]

\* lambda = decayLambda + 0.01 * sin(2 * pi * dayOfYear / 365)
SeasonalLambda(st, t) ==
    st.decayLambda + Mul(100, Sin((2 * Pi * DayOfYear(t)) \div DaysPerYear))

\* alpha * initialWeight * exp(-lambda * sqrt(daysElapsed))
TimeDecay(d, t, st) ==
    Mul(Mul(st.alpha, d.initialWeight),
        Exp(0 - Mul(SeasonalLambda(st, t), SqrtDays(t - d.lastUpdated))))

\* beta * (1 - 1 / (1 + log2(N + 1))), beta = betaCoefficient * (1 + 0.5 * tanh((N - 3) / 2))
InteractionBoost(n, st) ==
    LET beta == Mul(st.betaCoefficient, S + Tanh(((n - 3) * S) \div 2) \div 2)
    IN  Mul(beta, S - Div(S, S + Log2(n + 1)))

\* the weight of a record at time t
WeightOf(d, t, st) ==
    Round2(TimeDecay(d, t, st) + InteractionBoost(d.interactionCount, st))

calculateCurrentWeight(dt, f, t, st) ==
    IF f \notin DOMAIN dt THEN 0 ELSE WeightOf(dt[f], t, st)

\* the record a sweep leaves, with the interaction count kept
DecayedKeepCount(dt, f, t, st) ==
    [dt[f] EXCEPT !.initialWeight = calculateCurrentWeight(dt, f, t, st),
                  !.lastUpdated = t]

\* the body of applyDailyDecay's loop for one record
Decayed(dt, f, t, st) ==
    [dt[f] EXCEPT !.initialWeight = calculateCurrentWeight(dt, f, t, st),
                  !.interactionCount = 0,
                  !.lastUpdated = t]

applyDailyDecay(dt, t, st) == [f \in DOMAIN dt |-> Decayed(dt, f, t, st)]

(***************************************************************************)
(* Plugin.saveData / loadData: one JSON file, data.json, for whatever      *)
(* object is passed.  The text of an object is the set of its key and      *)
(* value pairs; a file that does not exist reads as null, which both       *)
(* loaders take for {}                                                     *)
(***************************************************************************)
Stringify(obj) == {<<k, obj[k]>> : k \in DOMAIN obj}

Parse(text) ==
    LET keys == {pair[1] : pair \in text}
    IN  [k \in keys |-> (CHOOSE pair \in text : pair[1] = k)[2]]

\* Object.assign({}, defaults, loaded)
Assign(defaults, loaded) ==
    [k \in DOMAIN defaults \cup DOMAIN loaded |->
        IF k \in DOMAIN loaded THEN loaded[k] ELSE defaults[k]]

(***************************************************************************)
(* Initial state: the plugin after onload, nothing tracked yet             *)
(***************************************************************************)
EmptyMap == [f \in {} |-> None]

Init ==
    /\ now = StartDay
    /\ settings = DEFAULT_SETTINGS
    /\ data = EmptyMap
    /\ memoryData = EmptyMap
    /\ outcomes = [f \in Files |-> <<>>]
    /\ preSweep = EmptyMap
    /\ sweeps = 0
    /\ vault = [f \in Files |-> <<>>]
    /\ content = [f \in Files |-> <<>>]
    /\ interactionDurations = EmptyMap
    /\ clock = LoadSlot
    /\ timerDue = LoadSlot + SlotsPerMinute
    /\ timerRuns = <<>>
    /\ activeFile = "a.md"
    /\ debounce = "idle"
    /\ gen = [f \in Files |-> NoCall]
    /\ batch = NoBatch
    /\ nodes = <<>>
    /\ calls = {}
    /\ events = 0
    /\ seen = EmptyMap
    /\ reviewQueue = <<>>
    /\ sweepRun = NoSweep
    /\ disk = Stringify(EmptyMap)
    /\ savedData = EmptyMap
    /\ ret = None

(***************************************************************************)
(* Actions of the memory-strength engine                                   *)
(***************************************************************************)
UpdateTestResult(f, isCorrect) ==
    /\ memoryData' = updateTestResult(memoryData, f, isCorrect, now)
    /\ outcomes' = [outcomes EXCEPT ![f] = Append(@, isCorrect)]
    /\ ret' = [op |-> "updateTestResult", file |-> f]
    /\ UNCHANGED <<envVars, otherVars, weightVars, docVars>>

CalculateMemoryStrength(f) ==
    LET r == calculateMemoryStrength(memoryData, f)
    IN  /\ memoryData' = r.mem
        /\ ret' = [op |-> "calculateMemoryStrength", file |-> f,
                   strength |-> r.strength, EF |-> r.EF]
        /\ UNCHANGED <<envVars, otherVars, weightVars, outcomes, docVars>>

StageTransition(current, scores) ==
    LET r == stageTransition(memoryData, current, scores, now)
    IN  /\ memoryData' = r.mem
        /\ ret' = [op |-> "stageTransition", current |-> current,
                   scores |-> scores, stage |-> r.stage]
        /\ UNCHANGED <<envVars, otherVars, weightVars, outcomes, docVars>>

RECURSIVE SumLens(_)
SumLens(fs) ==
    IF fs = {} THEN 0
    ELSE LET f == CHOOSE x \in fs : TRUE
         IN  Len(outcomes[f]) + SumLens(fs \ {f})

\* the number of updateTestResult calls made so far
TotalCalls == SumLens(Files)

(***************************************************************************)
(* SpecStreak: any sequence of test results, over the files                *)
(***************************************************************************)
MaxCalls == 11

StreakTest(f, isCorrect) ==
    /\ TotalCalls < MaxCalls
    /\ UpdateTestResult(f, isCorrect)

NextStreak == \E f \in Files, isCorrect \in BOOLEAN : StreakTest(f, isCorrect)

SpecStreak == Init /\ [][NextStreak]_vars

(***************************************************************************)
(* SpecWindow: one file tested past the size of its sliding window, with   *)
(* a bounded number of incorrect answers among the results                 *)
(***************************************************************************)
MaxOverflow == 2

MaxIncorrect == 1

WindowFile == "a.md"

Incorrect(h) == Cardinality({i \in 1..Len(h) : ~h[i]})

WindowTest(isCorrect) ==
    /\ Len(outcomes[WindowFile]) < WindowSize + MaxOverflow
    /\ isCorrect \/ Incorrect(outcomes[WindowFile]) < MaxIncorrect
    /\ UpdateTestResult(WindowFile, isCorrect)

NextWindow == \E isCorrect \in BOOLEAN : WindowTest(isCorrect)

SpecWindow == Init /\ [][NextWindow]_vars

(***************************************************************************)
(* SpecMemory: test results, strength computations and stage transitions   *)
(***************************************************************************)
MaxTests == 3

ScoreInputs ==
    [complexity : {3000, 5000}, engagement : {5000, 7000},
     centrality : {5000, 8000}, referenceCount : {0, 8}]

MemoryTest(f, isCorrect) ==
    /\ TotalCalls < MaxTests
    /\ UpdateTestResult(f, isCorrect)

NextMemory ==
    \/ \E f \in Files, isCorrect \in BOOLEAN : MemoryTest(f, isCorrect)
    \/ \E f \in Files : CalculateMemoryStrength(f)
    \/ \E current \in Transitions, scores \in ScoreInputs :
          StageTransition(current, scores)

SpecMemory == Init /\ [][NextMemory]_vars

(***************************************************************************)
(* Claims on the memory-strength engine                                    *)
(***************************************************************************)
RECURSIVE Trailing(_, _)
\* how many entries equal to b end the sequence h
Trailing(h, b) ==
    IF h = <<>> \/ h[Len(h)] # b THEN 0
    ELSE 1 + Trailing(SubSeq(h, 1, Len(h) - 1), b)

TenCorrect == [i \in 1..10 |-> TRUE]

\* C1: after any sequence of updateTestResult calls for a file,
\* consecutiveSuccess is the number of correct results ending the sequence
\* and consecutiveFailures the number of incorrect ones, so at most one of
\* them is non-zero; ten correct results give 10/0 and a following
\* incorrect one gives 0/1.
C1_StreaksFollowHistory ==
    \A f \in DOMAIN memoryData :
        LET d == memoryData[f]
            h == outcomes[f]
        IN  /\ d.consecutiveSuccess = Trailing(h, TRUE)
            /\ d.consecutiveFailures = Trailing(h, FALSE)
            /\ d.consecutiveSuccess = 0 \/ d.consecutiveFailures = 0
            /\ h = TenCorrect =>
                  d.consecutiveSuccess = 10 /\ d.consecutiveFailures = 0
            /\ h = TenCorrect \o <<FALSE>> =>
                  d.consecutiveSuccess = 0 /\ d.consecutiveFailures = 1

C1_Witness ==
    \E f \in DOMAIN memoryData :
        /\ outcomes[f] = TenCorrect \o <<FALSE>>
        /\ memoryData[f].consecutiveSuccess = 0
        /\ memoryData[f].consecutiveFailures = 1

\* the last n entries of h
LastN(h, n) == SubSeq(h, Len(h) - n + 1, Len(h))

Bits(h) == [i \in 1..Len(h) |-> IF h[i] THEN 1 ELSE 0]

\* C2: after n updateTestResult calls for a file, historicalSuccessRate
\* holds the last min(n, 100) results in call order: it is never longer
\* than 100 and the 101st push evicts the oldest entry.
C2_WindowHoldsLatest ==
    \A f \in DOMAIN memoryData :
        LET w == memoryData[f].historicalSuccessRate
            h == outcomes[f]
        IN  /\ Len(w) = Min(Len(h), WindowSize)
            /\ Len(w) <= WindowSize
            /\ w = LastN(Bits(h), Min(Len(h), WindowSize))

C2_Witness ==
    /\ WindowFile \in DOMAIN memoryData
    /\ Len(outcomes[WindowFile]) = WindowSize + 1
    /\ ~outcomes[WindowFile][1]
    /\ Len(memoryData[WindowFile].historicalSuccessRate) = WindowSize
    /\ memoryData[WindowFile].historicalSuccessRate[1] = 1

MaxEF == 25000

\* C3: in every state reached by updateTestResult, calculateMemoryStrength
\* and stageTransition, the EF stored for every file and the EF that
\* calculateMemoryStrength computes lie in [1.3, 2.5], whatever the history
\* of results, the empty history included.
C3_EFClamped ==
    /\ \A f \in DOMAIN memoryData :
          MinEF <= memoryData[f].EF /\ memoryData[f].EF <= MaxEF
    /\ ret.op = "calculateMemoryStrength" => MinEF <= ret.EF /\ ret.EF <= MaxEF

C3_Witness ==
    /\ ret.op = "calculateMemoryStrength"
    /\ ret.file \in DOMAIN memoryData
    /\ memoryData[ret.file].historicalSuccessRate = <<0, 1>>
    /\ memoryData[ret.file].EF = MinEF
    /\ \E f \in Files : f \notin DOMAIN memoryData

(***************************************************************************)
(* Actions of the weight model                                             *)
(***************************************************************************)
\* time passes
Tick(days) ==
    /\ now' = now + days
    /\ UNCHANGED <<settings, otherVars, weightVars, memoryVars, docVars, ret>>

\* the create, modify and editor-change handlers
UpdateInteraction(f) ==
    /\ data' = updateInteraction(data, f, now, settings)
    /\ disk' = Stringify(data')
    /\ savedData' = data'
    /\ ret' = [op |-> "updateInteraction", file |-> f]
    /\ UNCHANGED <<envVars, timerVars, editorVars, runVars, preSweep, sweeps,
                   memoryVars, docVars>>

\* the status bar's read of the active file's weight
CalculateCurrentWeight(f) ==
    /\ ret' = [op |-> "calculateCurrentWeight", file |-> f,
               weight |-> calculateCurrentWeight(data, f, now, settings)]
    /\ UNCHANGED <<envVars, otherVars, weightVars, memoryVars, docVars>>

\* the daily timer and the update-cognitive-weights command
ApplyDailyDecay ==
    /\ data' = applyDailyDecay(data, now, settings)
    /\ preSweep' = data
    /\ sweeps' = sweeps + 1
    /\ disk' = Stringify(data')
    /\ savedData' = data'
    /\ ret' = [op |-> "applyDailyDecay", at |-> now]
    /\ UNCHANGED <<envVars, timerVars, editorVars, runVars, memoryVars, docVars>>

(***************************************************************************)
(* SpecDecay: records age while time passes in quarters of a year          *)
(***************************************************************************)
QuarterDays == 91

MaxQuarters == 7

MaxInteractions == 3

Quarter == (now - StartDay) \div QuarterDays

DecayTick ==
    /\ Quarter < MaxQuarters
    /\ Tick(QuarterDays)

DecayInteraction(f) ==
    /\ f \in DOMAIN data => data[f].interactionCount < MaxInteractions
    /\ UpdateInteraction(f)

NextDecay ==
    \/ DecayTick
    \/ \E f \in Files : DecayInteraction(f)
    \/ \E f \in Files : CalculateCurrentWeight(f)

SpecDecay == Init /\ [][NextDecay]_vars

(***************************************************************************)
(* SpecSweep: interactions with the files, time and daily-decay sweeps     *)
(***************************************************************************)
MaxSweeps == 2

MaxSweepInteractions == 2

MaxSweepQuarters == 1

SweepTick ==
    /\ Quarter < MaxSweepQuarters
    /\ Tick(QuarterDays)

SweepInteraction(f) ==
    /\ sweeps < MaxSweeps
    /\ f \in DOMAIN data => data[f].interactionCount < MaxSweepInteractions
    /\ UpdateInteraction(f)

Sweep ==
    /\ sweeps < MaxSweeps
    /\ ApplyDailyDecay

NextSweep ==
    \/ SweepTick
    \/ \E f \in Files : SweepInteraction(f)
    \/ Sweep

SpecSweep == Init /\ [][NextSweep]_vars

(***************************************************************************)
(* SpecReinforce: one document edited and swept again and again            *)
(***************************************************************************)
MaxReinforcements == 4

ReinforcedFile == "a.md"

ReinforceInteraction ==
    /\ sweeps < MaxReinforcements
    /\ ReinforcedFile \in DOMAIN data =>
          data[ReinforcedFile].interactionCount < MaxInteractions
    /\ UpdateInteraction(ReinforcedFile)

ReinforceSweep ==
    /\ sweeps < MaxReinforcements
    /\ ApplyDailyDecay

NextReinforce ==
    \/ ReinforceInteraction
    \/ ReinforceSweep

SpecReinforce == Init /\ [][NextReinforce]_vars

(***************************************************************************)
(* Claims on the weight model                                              *)
(***************************************************************************)
\* C4: the stored base weight of every tracked document stays in [0, 1]
\* after every operation that updates it.
C4_BaseInUnitInterval ==
    \A f \in DOMAIN data :
        0 <= data[f].initialWeight /\ data[f].initialWeight <= S

\* C9: calculateCurrentWeight never grows with the elapsed days: while a
\* record is unchanged, a later evaluation gives no larger weight.
C9_WeightNeverGrowsWithTime ==
    [][\A f \in DOMAIN data :
          (data'[f] = data[f] /\ settings' = settings /\ now' >= now) =>
              calculateCurrentWeight(data, f, now', settings)
                  <= calculateCurrentWeight(data, f, now, settings)]_vars

\* C10: after applyDailyDecay every record of the weight map has
\* interactionCount 0, lastUpdated at the sweep's time, and as base the
\* current weight computed from the record as the sweep found it.
C10_SweepCommitsEveryRecord ==
    ret.op = "applyDailyDecay" =>
        /\ DOMAIN data = DOMAIN preSweep
        /\ \A f \in DOMAIN preSweep :
              /\ data[f].interactionCount = 0
              /\ data[f].lastUpdated = ret.at
              /\ data[f].initialWeight = WeightOf(preSweep[f], ret.at, settings)

C10_Witness ==
    /\ ret.op = "applyDailyDecay"
    /\ DOMAIN preSweep = Files
    /\ \A f \in Files : preSweep[f].interactionCount > 0
    /\ \E f \in Files : preSweep[f].lastUpdated < ret.at
    /\ \E f \in Files : data[f].initialWeight # preSweep[f].initialWeight

(***************************************************************************)
(* Review selection: MyPlugin.getDueFiles                                  *)
(***************************************************************************)
\* data?.historicalSuccessRate.filter(Boolean).length
Successes(h) == Cardinality({i \in 1..Len(h) : h[i] # 0})

\* days counted from now when the file has no record
DaysSinceLastReviewFromNow(md, f, t) ==
    IF f \in DOMAIN md /\ md[f].lastReviewTime # 0
    THEN t - md[f].lastReviewTime ELSE 0

\* days counted from the record's lastReviewTime, or from time 0 without one
DaysSinceLastReview(md, f, t) ==
    t - (IF f \in DOMAIN md /\ md[f].lastReviewTime # 0
         THEN md[f].lastReviewTime ELSE 0)

\* the filter with the day comparisons made inclusive
DuePredicateInclusive(strength, hasData, streak, successes, weight, days) ==
    \/ strength < 8000 /\ hasData /\ streak < 3
    \/ weight > 6000 /\ days >= 2
    \/ days >= 7 /\ hasData /\ successes < 3

\* the filter's return expression; a comparison of undefined (no record)
\* with a number is false
DuePredicate(strength, hasData, streak, successes, weight, days) ==
    \/ strength < 8000 /\ hasData /\ streak < 3
    \/ weight > 6000 /\ days > 2
    \/ days > 7 /\ hasData /\ successes < 3

\* the filter's verdict on one file, in the order the code evaluates:
\* data is read, then calculateMemoryStrength, then calculateCurrentWeight
IsDue(md, dt, f, t, st) ==
    LET hasData == f \in DOMAIN md
        r       == calculateMemoryStrength(md, f)
    IN  DuePredicate(r.strength, hasData,
                     IF hasData THEN md[f].consecutiveSuccess ELSE 0,
                     IF hasData THEN Successes(md[f].historicalSuccessRate) ELSE 0,
                     calculateCurrentWeight(dt, f, t, st),
                     DaysSinceLastReview(md, f, t))

\* getDueFiles(): the selected files (returned in random order, so a set)
\* and memoryData after it (calculateMemoryStrength rewrites each stored EF)
getDueFiles(md, dt, vlt, t, st) ==
    [due |-> {f \in DOMAIN vlt : IsDue(md, dt, f, t, st)},
     mem |-> [f \in DOMAIN md |->
                IF f \in DOMAIN vlt THEN calculateMemoryStrength(md, f).mem[f]
                ELSE md[f]]]

\* the start-review command's selection
GetDueFiles ==
    LET r == getDueFiles(memoryData, data, vault, now, settings)
    IN  /\ memoryData' = r.mem
        /\ ret' = [op |-> "getDueFiles", at |-> now, due |-> r.due]
        /\ UNCHANGED <<envVars, otherVars, weightVars, outcomes, docVars>>

(***************************************************************************)
(* SpecDue: one file is edited and tested while the days pass, and the     *)
(* review selection runs                                                   *)
(***************************************************************************)
MaxDueDays == 8

MaxDueInteractions == 3

MaxDueTests == 3

DueFile == "a.md"

DueTick ==
    /\ now - StartDay < MaxDueDays
    /\ Tick(1)

DueInteraction ==
    /\ DueFile \in DOMAIN data =>
          data[DueFile].interactionCount < MaxDueInteractions
    /\ UpdateInteraction(DueFile)

DueTest(isCorrect) ==
    /\ Len(outcomes[DueFile]) < MaxDueTests
    /\ UpdateTestResult(DueFile, isCorrect)

NextDue ==
    \/ DueTick
    \/ DueInteraction
    \/ \E isCorrect \in BOOLEAN : DueTest(isCorrect)
    \/ GetDueFiles

SpecDue == Init /\ [][NextDue]_vars

\* the three conditions as the claim words them, for a file with a record
ClaimedDue(f) ==
    LET d == memoryData[f]
    IN  \/ /\ calculateMemoryStrength(memoryData, f).strength < 8000
           /\ d.consecutiveSuccess < 3
        \/ /\ calculateCurrentWeight(data, f, now, settings) > 6000
           /\ now - d.lastReviewTime >= 2
        \/ /\ now - d.lastReviewTime >= 7
           /\ Successes(d.historicalSuccessRate) < 3

\* C5 as claimed: getDueFiles selects a file if and only if (a) strength
\* < 0.8 and fewer than 3 consecutive successes, or (b) weight > 0.6 and at
\* least 2 days since its last review, or (c) at least 7 days since its
\* last review and fewer than 3 successes in its history.  Stated for the
\* files that have a memory record.
C5_DueIffClaimed ==
    (ret.op = "getDueFiles" /\ ret.at = now) =>
        \A f \in DOMAIN vault \cap DOMAIN memoryData :
            f \in ret.due <=> ClaimedDue(f)

\* the three conditions with the day comparisons strict and the record
\* required where the code reads it
AmendedDue(f) ==
    LET hasData == f \in DOMAIN memoryData
        days    == IF hasData THEN now - memoryData[f].lastReviewTime ELSE now
    IN  \/ /\ hasData
           /\ calculateMemoryStrength(memoryData, f).strength < 8000
           /\ memoryData[f].consecutiveSuccess < 3
        \/ /\ calculateCurrentWeight(data, f, now, settings) > 6000
           /\ days > 2
        \/ /\ hasData
           /\ days > 7
           /\ Successes(memoryData[f].historicalSuccessRate) < 3

\* C5 (amended): getDueFiles selects a file if and only if (a) it has a
\* memory record, strength < 0.8 and fewer than 3 consecutive successes, or
\* (b) weight > 0.6 and more than 2 days since its last review (counted
\* from time 0 without a record), or (c) it has a memory record, more than
\* 7 days since its last review and fewer than 3 successes in its history.
\* The filter accepts strength 0.5 with consecutiveSuccess 1 and, under (a)
\* alone, rejects consecutiveSuccess 5.
C5_DueIffAmended ==
    /\ (ret.op = "getDueFiles" /\ ret.at = now) =>
          \A f \in DOMAIN vault : f \in ret.due <=> AmendedDue(f)
    /\ DuePredicate(5000, TRUE, 1, 1, 0, 0)
    /\ ~DuePredicate(5000, TRUE, 5, 5, 0, 0)

C5_Witness ==
    /\ ret.op = "getDueFiles"
    /\ ret.at = now
    /\ DueFile \in DOMAIN memoryData
    /\ now - memoryData[DueFile].lastReviewTime = 2
    /\ calculateCurrentWeight(data, DueFile, now, settings) > 6000
    /\ DueFile \notin ret.due

(***************************************************************************)
(* Text complexity: DataManager.calculateComplexity                        *)
(*                                                                         *)
(* A text is a sequence of characters of Alphabet: two vowels, a           *)
(* consonant, the space, the full stop and the heading mark.  None of the  *)
(* characters ` ! [ ] ( ) < > - * and no CJK character is in Alphabet, so  *)
(* of the six replacements only the heading one (#+\s+) can match, the     *)
(* CJK sentence split leaves the text whole and the CJK word count is 0.   *)
(***************************************************************************)
Alphabet == {"a", "e", "b", " ", ".", "#"}

IsSpace(c) == c = " "

\* \w
IsWordChar(c) == c \in {"a", "e", "b"}

Vowels == {"a", "e", "i", "o", "u", "y"}

EnglishStops == {".", "!", "?"}

Drop(t, n) == SubSeq(t, n + 1, Len(t))

RECURSIVE RunLength(_, _)
\* how many leading characters of t are in the set cs
RunLength(t, cs) ==
    IF t = <<>> \/ Head(t) \notin cs THEN 0 ELSE 1 + RunLength(Tail(t), cs)

\* content.trim() is not empty
HasText(t) == \E i \in 1..Len(t) : ~IsSpace(t[i])

RECURSIVE StripHeadings(_)
\* .replace(/#+\s+/g, '')
StripHeadings(t) ==
    IF t = <<>> THEN <<>>
    ELSE LET k == RunLength(t, {"#"})
             m == RunLength(Drop(t, k), {" "})
         IN  IF k > 0 /\ m > 0 THEN StripHeadings(Drop(t, k + m))
             ELSE <<Head(t)>> \o StripHeadings(Tail(t))

RECURSIVE CountPieces(_, _, _)
\* t.split(/[seps]+/).filter(s => s.trim()).length; open tells whether the
\* piece being read already holds a character that is not a space
CountPieces(t, seps, open) ==
    IF t = <<>> THEN (IF open THEN 1 ELSE 0)
    ELSE IF Head(t) \in seps
         THEN (IF open THEN 1 ELSE 0) + CountPieces(Tail(t), seps, FALSE)
         ELSE CountPieces(Tail(t), seps, open \/ ~IsSpace(Head(t)))

\* \b at position q (between t[q] and t[q+1])
IsBoundary(t, q) ==
    (q > 0 /\ IsWordChar(t[q])) # (q < Len(t) /\ IsWordChar(t[q + 1]))

\* where a match of /\b|\s+/ starting at position q ends, or -1
MatchEnd(t, q) ==
    IF IsBoundary(t, q) THEN q
    ELSE IF q < Len(t) /\ IsSpace(t[q + 1])
         THEN q + RunLength(Drop(t, q), {" "})
         ELSE 0 - 1

RECURSIVE SplitTokens(_, _, _, _)
\* String.prototype.split for the separator /\b|\s+/: p is the end of the
\* last separator, q the position tried next
SplitTokens(t, p, q, acc) ==
    IF q >= Len(t) THEN Append(acc, SubSeq(t, p + 1, Len(t)))
    ELSE LET e == MatchEnd(t, q)
         IN  IF e = 0 - 1 \/ e = p THEN SplitTokens(t, p, q + 1, acc)
             ELSE SplitTokens(t, e, e, Append(acc, SubSeq(t, p + 1, q)))

RECURSIVE VowelGroups(_, _)
\* the loop over the characters of a word
VowelGroups(w, prevVowel) ==
    IF w = <<>> THEN 0
    ELSE IF Head(w) \in Vowels /\ ~prevVowel
         THEN 1 + VowelGroups(Tail(w), TRUE)
         ELSE VowelGroups(Tail(w), FALSE)

SyllablesOf(w) ==
    LET count == VowelGroups(w, FALSE)
        cut   == IF w[Len(w)] = "e" /\ count > 1 THEN count - 1 ELSE count
    IN  Max(cut, 1)

RECURSIVE SumSyllables(_)
SumSyllables(ws) ==
    IF ws = <<>> THEN 0
    ELSE (IF Head(ws) = <<>> THEN 0 ELSE SyllablesOf(Head(ws)))
         + SumSyllables(Tail(ws))

NaN == [nan |-> TRUE, value |-> 0]

Number(v) == [nan |-> FALSE, value |-> v]

MinComplexity == 1000

\* the grade passed through log, sigmoid, rescaling and toFixed(2).
\* num / den is fkGrade + 1 as an exact fraction (den > 0): Math.log of a
\* negative number is NaN, which every later step keeps, and Math.log(0)
\* is -Infinity, whose sigmoid is 0
Normalize(num, den) ==
    IF num < 0 THEN NaN
    ELSE IF (num * S) \div den = 0 THEN Number(MinComplexity)
    ELSE LET logGrade   == Ln((num * S) \div den)
             normalized == Div(S, S + Exp(0 - Mul(5000, logGrade - 25000)))
             adjusted   == MinComplexity + Mul(S - MinComplexity, normalized)
         IN  Number(Round2(Min(adjusted, S)))

calculateComplexity(text) ==
    IF ~HasText(text) THEN Number(MinComplexity)
    ELSE LET plainText  == StripHeadings(text)
             chineseSentences == CountPieces(plainText, {}, FALSE)
             englishSentences == CountPieces(plainText, EnglishStops, FALSE)
             sentences  == Max(chineseSentences + englishSentences, 1)
             chineseWords == 0
             englishWords == CountPieces(plainText, {" "}, FALSE)
             totalWords == Max(chineseWords + englishWords, 1)
             syllables  == SumSyllables(SplitTokens(plainText, 0, 0, <<>>))
             \* fkGrade + 1 = 0.39 * (totalWords / sentences)
             \*             + 11.8 * (syllables / totalWords) - 14.59,
             \* over the common denominator 100 * sentences * totalWords
             num == 39 * totalWords * totalWords
                    + 1180 * syllables * sentences
                    - 1459 * sentences * totalWords
         IN  Normalize(num, 100 * sentences * totalWords)

startInteractionTracking(idur, f, text, t) ==
    IF f \in DOMAIN idur THEN idur
    ELSE [g \in DOMAIN idur \cup {f} |->
            IF g = f THEN [startTime |-> t, contentLength |-> Len(text),
                           durations |-> <<>>, linkCount |-> 0]
            ELSE idur[g]]

(***************************************************************************)
(* SpecComplexity: a text is typed into the active file's editor and the   *)
(* status bar shows its complexity                                         *)
(***************************************************************************)
MaxTextLen == 4

\* the two editor-change handlers, for a character typed at the end of the
\* text.  The debounced update (lodash, 500 ms, leading and trailing) runs
\* updateInteraction at once when no wait is under way and restarts the
\* wait; a change that arrives during a wait is owed one update at the
\* wait's end.  The second handler starts the tracking at once.
EditorChange(c) ==
    /\ Len(content[activeFile]) < MaxTextLen
    /\ content' = [content EXCEPT ![activeFile] = Append(@, c)]
    /\ IF debounce = "idle"
       THEN /\ data' = updateInteraction(data, activeFile, now, settings)
            /\ debounce' = "armed"
       ELSE /\ data' = data
            /\ debounce' = "owed"
    /\ interactionDurations' =
          startInteractionTracking(interactionDurations, activeFile,
                                   content'[activeFile], SlotTime(now, clock))
    /\ ret' = [op |-> "editorChange"]
    /\ UNCHANGED <<envVars, timerVars, laterVars, activeFile, preSweep,
                   sweeps, memoryVars, vault>>

\* the end of the debounce wait, 500 ms after the last change: the owed
\* update runs for the file that is in the editor by then
DebounceExpire ==
    /\ debounce # "idle"
    /\ debounce' = "idle"
    /\ IF debounce = "owed"
       THEN /\ data' = updateInteraction(data, activeFile, now, settings)
            /\ ret' = [op |-> "updateInteraction", file |-> activeFile]
       ELSE UNCHANGED <<data, ret>>
    /\ UNCHANGED <<envVars, timerVars, laterVars, activeFile, preSweep,
                   sweeps, memoryVars, docVars>>

\* the status bar's text for the active file: its weight and the
\* complexity of the editor's text
UpdateStatusBar ==
    /\ ret' = [op |-> "updateStatusBar", text |-> content[activeFile],
               weight |-> calculateCurrentWeight(data, activeFile, now, settings),
               complexity |-> calculateComplexity(content[activeFile])]
    /\ UNCHANGED <<envVars, otherVars, weightVars, memoryVars, docVars>>

NextComplexity ==
    \/ \E c \in Alphabet : EditorChange(c)
    \/ DebounceExpire
    \/ UpdateStatusBar

SpecComplexity == Init /\ [][NextComplexity]_vars

\* C6: calculateComplexity(text) returns a number in [0.1, 1.0] for every
\* text: exactly 0.1 for an empty or blank text, and a value in the range
\* for a single character or a single one-syllable word.
C6_ComplexityInRange ==
    ret.op = "updateStatusBar" =>
        /\ ~ret.complexity.nan
        /\ MinComplexity <= ret.complexity.value
        /\ ret.complexity.value <= S
        /\ ~HasText(ret.text) => ret.complexity.value = MinComplexity

(***************************************************************************)
(* Centrality: DataManager.calculateCentrality                             *)
(*                                                                         *)
(* vault[f] is the sequence of the [[link]] texts of file f.  A link text  *)
(* is compared with file paths as it is written, so the note name "a" is   *)
(* a key of its own, different from the path "a.md".                       *)
(***************************************************************************)
LinkTargets == Files \cup {"a"}

DampingFactor == 8500

Iterations == 10

\* the keys of newRank: every link text found in the vault
Linked(vlt) ==
    UNION {{vlt[f][i] : i \in 1..Len(vlt[f])} : f \in DOMAIN vlt}

Occurrences(links, k) == Cardinality({i \in 1..Len(links) : links[i] = k})

\* dampingFactor * (pagerank.get(current) / links.length), or 0
Contribution(vlt, rank, f) ==
    IF Len(vlt[f]) > 0
    THEN ((rank[f] \div Len(vlt[f])) * (DampingFactor \div 100)) \div 100
    ELSE 0

RECURSIVE Received(_, _, _, _)
\* newRank.get(k): the contributions of the files fs to the key k
Received(vlt, rank, fs, k) ==
    IF fs = {} THEN 0
    ELSE LET f == CHOOSE x \in fs : TRUE
         IN  Occurrences(vlt[f], k) * Contribution(vlt, rank, f)
             + Received(vlt, rank, fs \ {f}, k)

\* pagerank.get(k) after one iteration: only the keys of newRank are
\* updated, and they keep their old rank; a key without a rank counts as 0
NextRank(vlt, rank, k) ==
    IF k \in Linked(vlt)
    THEN rank[k] + Received(vlt, rank, DOMAIN vlt, k)
         + (S - DampingFactor) \div Cardinality(DOMAIN vlt)
    ELSE rank[k]

RECURSIVE RankStep(_, _, _)
\* one iteration, over the keys ks
RankStep(vlt, rank, ks) ==
    IF ks = {} THEN EmptyMap
    ELSE LET k == CHOOSE x \in ks : TRUE
         IN  (k :> NextRank(vlt, rank, k)) @@ RankStep(vlt, rank, ks \ {k})

RECURSIVE Iterate(_, _, _)
Iterate(vlt, rank, n) ==
    IF n = 0 THEN rank ELSE Iterate(vlt, RankStep(vlt, rank, DOMAIN rank), n - 1)

\* pagerank before the first iteration: 1 / |V| for every file
InitialRank(vlt) ==
    [k \in DOMAIN vlt \cup Linked(vlt) |->
        IF k \in DOMAIN vlt THEN S \div Cardinality(DOMAIN vlt) ELSE 0]

calculateCentrality(vlt, f) ==
    IF f \in DOMAIN vlt \cup Linked(vlt)
    THEN Iterate(vlt, InitialRank(vlt), Iterations)[f]
    ELSE 0

(***************************************************************************)
(* SpecCentrality: links are written into the files, files are deleted,    *)
(* and the centrality of a file is computed                                *)
(***************************************************************************)
MaxLinks == 2

\* a file is saved with one more [[target]] at its end (the modify handler)
AddLink(f, target) ==
    /\ f \in DOMAIN vault
    /\ Len(vault[f]) < MaxLinks
    /\ vault' = [vault EXCEPT ![f] = Append(@, target)]
    /\ data' = updateInteraction(data, f, now, settings)
    /\ disk' = Stringify(data')
    /\ savedData' = data'
    /\ ret' = [op |-> "modify", file |-> f]
    /\ UNCHANGED <<envVars, timerVars, editorVars, runVars, preSweep, sweeps,
                   memoryVars, content, interactionDurations>>

\* a file is deleted from the vault (no handler listens)
DeleteFile(f) ==
    /\ f \in DOMAIN vault
    /\ vault' = [g \in DOMAIN vault \ {f} |-> vault[g]]
    /\ UNCHANGED <<envVars, otherVars, weightVars, memoryVars, content,
                   interactionDurations, ret>>

CalculateCentrality(f) ==
    /\ f \in DOMAIN vault
    /\ ret' = [op |-> "calculateCentrality", file |-> f, graph |-> vault,
               value |-> calculateCentrality(vault, f)]
    /\ UNCHANGED <<envVars, otherVars, weightVars, memoryVars, docVars>>

NextCentrality ==
    \/ \E f \in Files, target \in LinkTargets : AddLink(f, target)
    \/ \E f \in Files : DeleteFile(f)
    \/ \E f \in Files : CalculateCentrality(f)

SpecCentrality == Init /\ [][NextCentrality]_vars

\* C7: in a vault of |V| >= 1 files none of which contains a link,
\* calculateCentrality returns (1 - 0.85) / |V| for every file.
C7_NoLinksGiveJumpFloor ==
    (/\ ret.op = "calculateCentrality"
     /\ \A f \in DOMAIN ret.graph : ret.graph[f] = <<>>)
    => ret.value = (S - DampingFactor) \div Cardinality(DOMAIN ret.graph)

(***************************************************************************)
(* Cognitive stage: DataManager.detectCognitiveStage                       *)
(*                                                                         *)
(* The stages are returned as the strings "expert", "intermediate" and     *)
(* "novice" (the code's Chinese labels, in that order of its branches).    *)
(***************************************************************************)
\* the weights of the three scores, normalized to sum 1
StageWeights(referenceCount) ==
    LET rawComplexity == 4000 + Mul(1000, Ln((referenceCount + 1) * S))
        totalWeight   == rawComplexity + 3000 + 3000
    IN  [complexity |-> Div(rawComplexity, totalWeight),
         engagement |-> Div(3000, totalWeight),
         centrality |-> Div(3000, totalWeight)]

\* the second branch with its two conditions joined by "and"
IsIntermediateBoth(weightedScore, weights) ==
    /\ weightedScore.engagement > Mul(4000, weights.engagement)
    /\ weightedScore.centrality > Mul(3000, weights.centrality)

IsExpert(weightedScore, weights) ==
    /\ weightedScore.complexity > Mul(7000, weights.complexity)
    /\ weightedScore.centrality > Mul(6000, weights.centrality)

\* the second branch with its thresholds scaled by the raw weights (0.3) and
\* not by the normalized ones
IsIntermediateRawWeights(weightedScore, weights) ==
    \/ weightedScore.engagement > Mul(4000, 3000)
    \/ weightedScore.centrality > Mul(3000, 3000)

IsIntermediate(weightedScore, weights) ==
    \/ weightedScore.engagement > Mul(4000, weights.engagement)
    \/ weightedScore.centrality > Mul(3000, weights.centrality)

detectCognitiveStage(scores) ==
    LET weights == StageWeights(scores.referenceCount)
        weightedScore ==
            [complexity |-> Mul(scores.complexity, weights.complexity),
             engagement |-> Mul(scores.engagement, weights.engagement),
             centrality |-> Mul(scores.centrality, weights.centrality)]
    IN  IF IsExpert(weightedScore, weights) THEN "expert"
        ELSE IF IsIntermediate(weightedScore, weights) THEN "intermediate"
        ELSE "novice"

(***************************************************************************)
(* SpecStage: the stage of every combination of scores on a grid of tenths *)
(* around the thresholds                                                   *)
(***************************************************************************)
MaxReferenceCount == 5

\* tenths on both sides of the threshold (0.7) of the complexity
ComplexityGrid == {5000, 6000, 7000, 8000, 9000}

\* tenths on both sides of the threshold (0.4) of the engagement
EngagementGrid == {2000, 3000, 4000, 5000, 6000}

\* tenths on both sides of the thresholds (0.3, 0.6) of the centrality
CentralityGrid == {2000, 3000, 4000, 5000, 6000, 7000, 8000, 9000}

StageScores ==
    [complexity : ComplexityGrid, engagement : EngagementGrid,
     centrality : CentralityGrid, referenceCount : 0..MaxReferenceCount]

DetectCognitiveStage(scores) ==
    /\ ret' = [op |-> "detectCognitiveStage", scores |-> scores,
               stage |-> detectCognitiveStage(scores)]
    /\ UNCHANGED <<envVars, otherVars, weightVars, memoryVars, docVars>>

NextStage == \E scores \in StageScores : DetectCognitiveStage(scores)

SpecStage == Init /\ [][NextStage]_vars

ExampleScores ==
    [complexity |-> 9000, engagement |-> 2000, centrality |-> 8000,
     referenceCount |-> 5]

\* the decision of the claim on the scores themselves (each weight is
\* positive, so it cancels on both sides of a comparison)
ClaimedStage(scores) ==
    IF scores.complexity > 7000 /\ scores.centrality > 6000 THEN "expert"
    ELSE IF scores.engagement > 4000 \/ scores.centrality > 3000
         THEN "intermediate"
    ELSE "novice"

\* C8: detectCognitiveStage returns expert when weighted complexity exceeds
\* 0.7 of its weight and weighted centrality 0.6 of its weight, otherwise
\* intermediate when weighted engagement exceeds 0.4 of its weight or
\* weighted centrality 0.3 of its weight, otherwise novice; the scores
\* {complexity 0.9, engagement 0.2, centrality 0.8, referenceCount 5} are
\* classified as expert.
C8_StageDecision ==
    ret.op = "detectCognitiveStage" =>
        /\ ret.stage = ClaimedStage(ret.scores)
        /\ ret.scores = ExampleScores => ret.stage = "expert"

C8_Witness ==
    /\ ret.op = "detectCognitiveStage"
    /\ ret.scores = ExampleScores
    /\ ret.stage = "expert"

(***************************************************************************)
(* The daily-update interval: MyPlugin.onload                              *)
(*                                                                         *)
(* window.setInterval keeps the ticks on the grid of its period, counted   *)
(* from the registration; the callback of a tick runs at its due time or   *)
(* later.  A callback that runs late does not move the ticks after it.     *)
(***************************************************************************)
Hours(c) == (c \div SlotsPerMinute) \div 60

Minutes(c) == (c \div SlotsPerMinute) % 60

\* the due time of the tick after a callback that ran at time c
NextTickDue(due, c) == c + SlotsPerMinute - ((c - due) % SlotsPerMinute)

\* the callback's test of the time of day
IsUpdateTime(c, st) ==
    /\ Hours(c) = st.dailyUpdateTime[1]
    /\ Minutes(c) = st.dailyUpdateTime[2]

(***************************************************************************)
(* SpecTimer: the clock runs through the night of the first day and the    *)
(* interval's callback runs up to MaxTimerDelay slots late                 *)
(***************************************************************************)
MaxTimerDelay == 1

\* the clock stops two minutes after the default update time
MaxClock == ((2 * 60) + 2) * SlotsPerMinute

\* time passes, but no further than the latest start of the due callback
ClockAdvance ==
    /\ clock < MaxClock
    /\ clock < timerDue + MaxTimerDelay
    /\ clock' = clock + 1
    /\ UNCHANGED <<envVars, timerDue, timerRuns, editorVars, laterVars,
                   weightVars, memoryVars, docVars, ret>>

\* the interval's callback
TimerTick ==
    /\ clock >= timerDue
    /\ timerDue' = NextTickDue(timerDue, clock)
    /\ IF IsUpdateTime(clock, settings)
       THEN /\ data' = applyDailyDecay(data, now, settings)
            /\ preSweep' = data
            /\ sweeps' = sweeps + 1
            /\ timerRuns' = Append(timerRuns, <<now, Hours(clock), Minutes(clock)>>)
            /\ disk' = Stringify(data')
            /\ savedData' = data'
            /\ ret' = [op |-> "applyDailyDecay", at |-> now]
       ELSE UNCHANGED <<weightVars, timerRuns, diskVars, ret>>
    /\ UNCHANGED <<envVars, clock, editorVars, runVars, memoryVars, docVars>>

NextTimer ==
    \/ ClockAdvance
    \/ TimerTick

SpecTimer == Init /\ [][NextTimer]_vars

\* C11: for any timing of the ticks of the 60-second timer, the timer starts
\* applyDailyDecay at most once for each daily occurrence of the configured
\* dailyUpdateTime.
C11_OneSweepPerTrigger ==
    \A i, j \in 1..Len(timerRuns) : timerRuns[i] = timerRuns[j] => i = j

(***************************************************************************)
(* SpecIdempotent: the alpha coefficient is edited in the settings tab,    *)
(* files are edited and the sweep is run by hand, on one day               *)
(***************************************************************************)
AlphaChoices == {S \div 2, S}

MaxRepeatSweeps == 3

MaxRepeatInteractions == 2

\* the onChange of the "Alpha Coefficient" field of the settings tab
SetAlpha(a) ==
    /\ settings.alpha # a
    /\ settings' = [settings EXCEPT !.alpha = a]
    /\ disk' = Stringify(settings')
    /\ ret' = [op |-> "saveSettings"]
    /\ UNCHANGED <<now, timerVars, editorVars, runVars, savedData, weightVars,
                   memoryVars, docVars>>

RepeatInteraction(f) ==
    /\ f \in DOMAIN data => data[f].interactionCount < MaxRepeatInteractions
    /\ UpdateInteraction(f)

RepeatSweep ==
    /\ sweeps < MaxRepeatSweeps
    /\ ApplyDailyDecay

NextIdempotent ==
    \/ \E a \in AlphaChoices : SetAlpha(a)
    \/ \E f \in Files : RepeatInteraction(f)
    \/ RepeatSweep

SpecIdempotent == Init /\ [][NextIdempotent]_vars

\* C12: a sweep run immediately after a sweep, with no elapsed time and no
\* interaction in between, leaves the base and the interactionCount of
\* every record as the first sweep left them, for any configured settings.
C12_SweepIdempotent ==
    [][(/\ ret.op = "applyDailyDecay"
        /\ ret.at = now
        /\ now' = now
        /\ sweeps' = sweeps + 1)
       => \A f \in DOMAIN data :
             /\ data'[f].initialWeight = data[f].initialWeight
             /\ data'[f].interactionCount = data[f].interactionCount]_vars

(***************************************************************************)
(* Engagement: DataManager.recordInteractionDuration, calculateEngagement  *)
(* and the detect-cognitive-stage command                                  *)
(***************************************************************************)
\* t is Date.now() in slots; a duration is kept in ms
recordInteractionDuration(idur, f, t) ==
    IF f \in DOMAIN idur
    THEN [idur EXCEPT ![f].durations = Append(@, (t - idur[f].startTime) * MsPerSlot),
                      ![f].startTime = t]
    ELSE idur

\* (totalDuration * 0.6 + linkCount * 0.4) / (contentLength || 1)
EngagementScore(tracking) ==
    (SumSeq(tracking.durations) * 6000 + tracking.linkCount * 4000)
        \div (IF tracking.contentLength = 0 THEN 1 ELSE tracking.contentLength)

\* data[filePath]?.previousEngagement || engagementScore
PreviousEMA(dt, f, score) ==
    IF f \in DOMAIN dt /\ dt[f].previousEngagement # 0
    THEN dt[f].previousEngagement ELSE score

\* the returned number, whether the call threw instead of returning, and
\* data after it.  The write of previousEngagement dereferences
\* data[filePath]: without a record it throws a TypeError.
calculateEngagement(dt, idur, f) ==
    IF f \notin DOMAIN idur THEN [threw |-> FALSE, value |-> 0, data |-> dt]
    ELSE LET engagementScore == EngagementScore(idur[f])
             previousEMA == PreviousEMA(dt, f, engagementScore)
             currentEMA  == (2 * engagementScore + 8 * previousEMA) \div 10
         IN  IF f \notin DOMAIN dt
             THEN [threw |-> TRUE, value |-> 0, data |-> dt]
             ELSE [threw |-> FALSE, value |-> currentEMA,
                   data |-> [dt EXCEPT ![f].previousEngagement = currentEMA]]

\* the detect-cognitive-stage command for the active file: the scores are
\* computed in the order complexity, engagement, centrality.  A NaN
\* complexity fails every comparison of detectCognitiveStage, as the score
\* 0 does, so it is passed on as 0.
DetectStage ==
    LET complexity == calculateComplexity(content[activeFile])
        engagement == calculateEngagement(data, interactionDurations, activeFile)
        scores == [complexity |-> IF complexity.nan THEN 0 ELSE complexity.value,
                   engagement |-> engagement.value,
                   centrality |-> calculateCentrality(vault, activeFile),
                   referenceCount |-> 0]
    IN  /\ data' = engagement.data
        /\ ret' = IF engagement.threw
                  THEN [op |-> "detectStage", file |-> activeFile,
                        tracked |-> TRUE, threw |-> TRUE]
                  ELSE [op |-> "detectStage", file |-> activeFile,
                        tracked |-> activeFile \in DOMAIN interactionDurations,
                        threw |-> FALSE, scores |-> scores,
                        stage |-> detectCognitiveStage(scores)]
        /\ UNCHANGED <<envVars, otherVars, preSweep, sweeps, memoryVars, docVars>>

\* another file comes into the editor (active-leaf-change): the status bar
\* is updated for it
SwitchActiveFile(f) ==
    /\ f # activeFile
    /\ activeFile' = f
    /\ ret' = [op |-> "updateStatusBar", text |-> content[f],
               weight |-> calculateCurrentWeight(data, f, now, settings),
               complexity |-> calculateComplexity(content[f])]
    /\ UNCHANGED <<envVars, timerVars, laterVars, debounce, weightVars,
                   memoryVars, docVars>>

\* five seconds pass and the duration interval's callback runs
DurationTick ==
    /\ debounce = "idle"
    /\ clock' = clock + 1
    /\ interactionDurations' =
          recordInteractionDuration(interactionDurations, activeFile,
                                    SlotTime(now, clock'))
    /\ UNCHANGED <<envVars, timerDue, timerRuns, editorVars, laterVars,
                   weightVars, memoryVars, vault, content, ret>>

(***************************************************************************)
(* SpecEngagement: typing in two files, switching between them, the        *)
(* duration interval and the detect-stage command                          *)
(***************************************************************************)
MaxTyped == 2

MaxDurationTicks == 2

EngagementChange ==
    /\ Len(content[activeFile]) < MaxTyped
    /\ EditorChange("a")

EngagementTick ==
    /\ clock < LoadSlot + MaxDurationTicks
    /\ DurationTick

NextEngagement ==
    \/ EngagementChange
    \/ DebounceExpire
    \/ \E f \in Files : SwitchActiveFile(f)
    \/ EngagementTick
    \/ DetectStage

SpecEngagement == Init /\ [][NextEngagement]_vars

\* C13: calculateEngagement never raises, for any interleaving of
\* editor-change events, active-file switches, the duration timer and the
\* detect-stage command; it returns 0 for a file with no tracked session.
C13_EngagementNeverRaises ==
    ret.op = "detectStage" =>
        /\ ~ret.threw
        /\ ~ret.tracked => ret.scores.engagement = 0

(***************************************************************************)
(* Question generation: QuestionGenerator.generateQuestion and the         *)
(* start-review command                                                    *)
(*                                                                         *)
(* A response of the service is one of four kinds: "question" (an OK       *)
(* response that parseApiResponse accepts), "unparseable" (an OK response  *)
(* on which JSON.parse or parseApiResponse throws), "httpError" (a status  *)
(* that is not OK) and "networkError" (fetch rejects).                     *)
(***************************************************************************)
ResponseKinds == {"question", "unparseable", "httpError", "networkError"}

InitialRetries == 3

MaxQuestions == 5

\* an attempt that counts an unparseable response as a question
AttemptOutcomeLenient(kind) ==
    IF kind \in {"question", "unparseable"} THEN "return" ELSE "throw"

\* what one pass of the loop does with the response: the inner catch
\* rethrows every parse failure with a message that holds "JSON", and the
\* outer catch retries on that message alone
AttemptOutcome(kind) ==
    IF kind = "question" THEN "return"
    ELSE IF kind = "unparseable" THEN "retry"
    ELSE "throw"

\* the call g after the response to its request
AfterResponse(g, kind) ==
    LET o == AttemptOutcome(kind)
        h == [g EXCEPT !.responses = Append(@, kind)]
    IN  IF o = "return" THEN [h EXCEPT !.pc = "question"]
        ELSE IF o = "retry"
             THEN [h EXCEPT !.pc = "delay", !.retries = @ - 1]
        ELSE [h EXCEPT !.pc = "failed", !.error = kind]

\* the call g after the 1000 ms of the catch block: the loop goes on while
\* retries > 0, and the statement after the loop throws
AfterDelay(g) ==
    IF g.retries > 0 THEN [g EXCEPT !.pc = "requesting"]
    ELSE [g EXCEPT !.pc = "failed", !.error = "exhausted"]

Settled(g) == g.pc \in {"question", "failed"}

\* a batch in which the rejection of one call rejects Promise.all
BatchOutcomeFailFast(sel, g) ==
    IF \E f \in sel : g[f].pc = "failed"
    THEN [session |-> {}, opened |-> FALSE, rejected |-> TRUE]
    ELSE [session |-> sel, opened |-> sel # {}, rejected |-> FALSE]

\* the end of the callback: every call has its own catch, which turns a
\* rejection into null; the questions that are not null open the session
BatchOutcome(sel, g) ==
    LET validQuestions == {f \in sel : g[f].pc = "question"}
    IN  [session |-> validQuestions, opened |-> validQuestions # {},
         rejected |-> FALSE]

\* the start-review command up to Promise.all: the due files (in random
\* order) are cut to maxQuestions and a question is requested for each
StartReview(sel) ==
    LET r == getDueFiles(memoryData, data, vault, now, settings)
    IN  /\ batch.state # "generating"
        /\ sel \subseteq r.due
        /\ Cardinality(sel) = Min(MaxQuestions, Cardinality(r.due))
        /\ memoryData' = r.mem
        /\ gen' = [f \in Files |->
                     IF f \in sel
                     THEN [NoCall EXCEPT !.pc = "requesting",
                                         !.retries = InitialRetries]
                     ELSE NoCall]
        /\ batch' = [NoBatch EXCEPT !.state = IF sel = {} THEN "done"
                                              ELSE "generating",
                                    !.runs = batch.runs + 1,
                                    !.selected = sel]
        /\ ret' = [op |-> "getDueFiles", at |-> now, due |-> r.due]
        /\ UNCHANGED <<envVars, timerVars, editorVars, graphVars, sweepVars, diskVars, weightVars,
                       outcomes, docVars>>

\* the service's response to the request of the call for f
Respond(f, kind) ==
    /\ gen[f].pc = "requesting"
    /\ gen' = [gen EXCEPT ![f] = AfterResponse(@, kind)]
    /\ UNCHANGED <<envVars, timerVars, editorVars, graphVars, sweepVars, diskVars, batch,
                   weightVars, memoryVars, docVars, ret>>

\* the end of the delay before the next pass of the loop
RetryDelayOver(f) ==
    /\ gen[f].pc = "delay"
    /\ gen' = [gen EXCEPT ![f] = AfterDelay(@)]
    /\ UNCHANGED <<envVars, timerVars, editorVars, graphVars, sweepVars, diskVars, batch,
                   weightVars, memoryVars, docVars, ret>>

\* Promise.all is fulfilled and the rest of the callback runs
FinishReview ==
    /\ batch.state = "generating"
    /\ \A f \in batch.selected : Settled(gen[f])
    /\ LET o == BatchOutcome(batch.selected, gen)
       IN  batch' = [batch EXCEPT !.state = "done", !.session = o.session,
                                  !.opened = o.opened, !.rejected = o.rejected]
    /\ ret' = [op |-> "startReview"]
    /\ UNCHANGED <<envVars, timerVars, editorVars, graphVars, sweepVars, diskVars, gen,
                   weightVars, memoryVars, docVars>>

(***************************************************************************)
(* SpecQuestions: files are edited until they are due, the review is       *)
(* started and the service answers each request in any of the four ways.   *)
(* Every request is answered and every delay ends (weak fairness).         *)
(***************************************************************************)
MaxBatches == 1

MaxQuestionInteractions == 3

QuestionInteraction(f) ==
    /\ batch.state = "none"
    /\ f \in DOMAIN data => data[f].interactionCount < MaxQuestionInteractions
    /\ UpdateInteraction(f)

QuestionReview ==
    /\ batch.runs < MaxBatches
    /\ \E sel \in SUBSET Files : StartReview(sel)

NextQuestions ==
    \/ \E f \in Files : QuestionInteraction(f)
    \/ QuestionReview
    \/ \E f \in Files, kind \in ResponseKinds : Respond(f, kind)
    \/ \E f \in Files : RetryDelayOver(f)
    \/ FinishReview

SpecQuestions ==
    /\ Init
    /\ [][NextQuestions]_vars
    /\ \A f \in Files :
          /\ WF_vars(\E kind \in ResponseKinds : Respond(f, kind))
          /\ WF_vars(RetryDelayOver(f))
    /\ WF_vars(FinishReview)

Last(h) == h[Len(h)]

AllUnparseable(h) == \A i \in 1..Len(h) : h[i] = "unparseable"

\* the parts of C14 that hold of every state of one call
RetriesBounded(g) ==
    /\ g.pc = "question" => Last(g.responses) = "question"
    /\ Len(g.responses) <= InitialRetries
    /\ g.retries >= 0
    /\ (AllUnparseable(g.responses) /\ g.pc = "failed") =>
          /\ g.error = "exhausted"
          /\ Len(g.responses) = InitialRetries
    /\ (AllUnparseable(g.responses) /\ g.pc = "requesting") =>
          Len(g.responses) < InitialRetries

\* C14: when the responses for a document are unparseable, generateQuestion
\* retries after the fixed delay, at most 3 times, and then rejects with a
\* generation error; it never returns a question built from an unparseable
\* response, and every call ends.
C14_UnparseableRetriedThenRejected ==
    /\ [](\A f \in Files : RetriesBounded(gen[f]))
    /\ \A f \in Files :
          (gen[f].pc \in {"requesting", "delay"}) ~> Settled(gen[f])

C14_Witness ==
    \E f \in Files :
       /\ gen[f].pc = "failed"
       /\ gen[f].error = "exhausted"
       /\ gen[f].responses = <<"unparseable", "unparseable", "unparseable">>

Transient == {"httpError", "networkError"}

\* C15: a network failure or a status that is not OK is retried (up to 3
\* times, after a fixed delay) before the failure is surfaced: one such
\* error does not fail the document at once.
C15_TransientRetried ==
    \A f \in Files :
       (gen[f].pc = "failed" /\ gen[f].error \in Transient) =>
          Cardinality({i \in 1..Len(gen[f].responses) :
                          gen[f].responses[i] \in Transient}) > 1

\* C16: in the start-review batch a failed generation never prevents the
\* others: the session is opened with exactly the questions of the selected
\* files whose generation succeeded, and the command ends without a
\* rejection, whatever subset of the files fails.
C16_BatchSurvivesFailures ==
    batch.state = "done" =>
        /\ ~batch.rejected
        /\ batch.session = {f \in batch.selected : gen[f].pc = "question"}
        /\ batch.opened <=> batch.session # {}

C16_Witness ==
    /\ batch.state = "done"
    /\ batch.selected = Files
    /\ gen["a.md"].pc = "failed"
    /\ batch.session = {"b.md"}
    /\ batch.opened

(***************************************************************************)
(* The knowledge graph: getNodeIdFromFile, CognitiveEngine.updateWeight,   *)
(* KnowledgeGraph.addNode and findLinksForNode, DeepSeekPlugin's modify    *)
(* handler and runDailyReview                                              *)
(*                                                                         *)
(* A document path is a sequence of tokens: a letter, the underscore, the  *)
(* slash and the substring ".md".  The content of a document at its k-th   *)
(* modify event is the number k, and the node built from it carries k as   *)
(* the identity (rev) of the node object.  Dates are whole days.           *)
(***************************************************************************)
PathTokens == {"n", "_", "/", ".md"}

MaxPathLen == 4

\* a path of a markdown file: a name in folders, none of them empty
IsDocumentPath(p) ==
    /\ Len(p) >= 2
    /\ p[Len(p)] = ".md"
    /\ p[1] \in {"n", "_"}
    /\ \A i \in 1..(Len(p) - 1) : p[i] = "/" => p[i + 1] \in {"n", "_"}

GraphPaths ==
    {p \in UNION {[1..k -> PathTokens] : k \in 2..MaxPathLen} : IsDocumentPath(p)}

RECURSIVE RemoveFirst(_, _)
\* String.prototype.replace(tok, ''): the first occurrence only
RemoveFirst(p, tok) ==
    IF p = <<>> THEN <<>>
    ELSE IF Head(p) = tok THEN Tail(p)
    ELSE <<Head(p)>> \o RemoveFirst(Tail(p), tok)

getNodeIdFromFile(p) ==
    RemoveFirst([i \in 1..Len(p) |-> IF p[i] = "/" THEN "_" ELSE p[i]], ".md")

GRAPH_SETTINGS == [decayRate |-> 500, maxReviewInterval |-> 30]

\* CognitiveEngine.updateWeight at day t
updateWeight(node, t) ==
    LET timeDecay == Mul(node.base,
                         Exp(0 - GRAPH_SETTINGS.decayRate * (t - node.lastUpdated)))
        interactionBoost == Mul(2000, Ln((1 + node.interactions) * S))
    IN  [node EXCEPT !.base = Min(S, timeDecay + interactionBoost),
                     !.lastUpdated = t,
                     !.interactions = @ + 1]

\* the node literal of addNode for the k-th event, on the path p, at day t
NewNode(p, k, t) ==
    [id |-> getNodeIdFromFile(p), content |-> k, base |-> 5000,
     interactions |-> 0, lastUpdated |-> t, links |-> <<>>,
     nextReviewDate |-> t, rev |-> k, path |-> p]

\* the position of the node with this id in the Map, or 0
NodeIndex(ns, id) ==
    IF \E i \in 1..Len(ns) : ns[i].id = id
    THEN CHOOSE i \in 1..Len(ns) : ns[i].id = id
    ELSE 0

\* the position of the node object rev in the Map, or 0 when the Map
\* holds another object under its id by now
ObjectIndex(ns, rev) ==
    IF \E i \in 1..Len(ns) : ns[i].rev = rev
    THEN CHOOSE i \in 1..Len(ns) : ns[i].rev = rev
    ELSE 0

\* Map.prototype.set: a new key goes to the end, a known key keeps its place
SetNode(ns, node) ==
    IF NodeIndex(ns, node.id) = 0 THEN Append(ns, node)
    ELSE [ns EXCEPT ![NodeIndex(ns, node.id)] = node]

\* Math.round of a fixed-point number
RoundHalfUp(x) == (x + S \div 2) \div S

\* DeepSeekPlugin.calculateReviewInterval, in days
calculateReviewInterval(node) ==
    Min(GRAPH_SETTINGS.maxReviewInterval,
        Max(1, RoundHalfUp(10 * (S - node.base))))

\* the targets that findLinksForNode pushes: confidence above 0.6
RECURSIVE AcceptedTargets(_)
AcceptedTargets(reply) ==
    IF reply = <<>> THEN <<>>
    ELSE (IF Head(reply).confidence > 6000 THEN <<Head(reply).target>> ELSE <<>>)
         \o AcceptedTargets(Tail(reply))

\* the loop body of runDailyReview for one node
Reviewed(node, isCorrect, t) ==
    LET tested == [node EXCEPT !.base = IF isCorrect THEN Min(S, @ + 1000)
                                        ELSE Mul(@, 9000)]
    IN  [tested EXCEPT !.nextReviewDate = t + calculateReviewInterval(tested)]

IsDueNode(node, t) == node.nextReviewDate <= t /\ node.base < 8500

RECURSIVE DueRevs(_, _)
\* the node objects that runDailyReview's filter keeps, in Map order
DueRevs(ns, t) ==
    IF ns = <<>> THEN <<>>
    ELSE (IF IsDueNode(Head(ns), t) THEN <<Head(ns).rev>> ELSE <<>>)
         \o DueRevs(Tail(ns), t)

\* the variables of the cognitive-weight plugin, which the knowledge graph
\* never touches
cognitiveVars == <<envVars, timerVars, editorVars, questionVars, weightVars,
                   memoryVars, docVars, sweepVars, diskVars>>

\* the modify handler, processFile and addNode up to its first await: the
\* node of the document is built and its embedding is requested
ProcessFile(p) ==
    /\ p[Len(p)] = ".md"
    /\ events' = events + 1
    /\ seen' = [q \in DOMAIN seen \cup {p} |-> IF q = p THEN events' ELSE seen[q]]
    /\ calls' = calls \cup {[pc |-> "embedding",
                             node |-> updateWeight(NewNode(p, events', now), now)]}
    /\ UNCHANGED <<cognitiveVars, nodes, reviewQueue, ret>>

\* the embedding arrives: the node is stored under its id and the links of
\* that node object are requested
EmbeddingDone(c) ==
    /\ c \in calls /\ c.pc = "embedding"
    /\ nodes' = SetNode(nodes, c.node)
    /\ calls' = (calls \ {c}) \cup {[c EXCEPT !.pc = "linking"]}
    /\ UNCHANGED <<cognitiveVars, events, seen, reviewQueue, ret>>

ConfidenceChoices == {6000, 9000}

\* the replies the link service may give the call c: no link, or one link
\* to another node
Replies(c) ==
    {<<>>} \cup {<<[target |-> nodes[i].id, confidence |-> k]>> :
                    i \in {j \in 1..Len(nodes) : nodes[j].id # c.node.id},
                    k \in ConfidenceChoices}

\* the links arrive: they are pushed onto the node object the call stored
LinksDone(c, reply) ==
    /\ c \in calls /\ c.pc = "linking"
    /\ nodes' = IF ObjectIndex(nodes, c.node.rev) = 0 THEN nodes
                ELSE [nodes EXCEPT ![ObjectIndex(nodes, c.node.rev)].links =
                                       @ \o AcceptedTargets(reply)]
    /\ calls' = calls \ {c}
    /\ ret' = [op |-> "findLinksForNode", sourceId |-> c.node.id,
               reply |-> reply]
    /\ UNCHANGED <<cognitiveVars, events, seen, reviewQueue>>

\* the run-review command: the due nodes are picked
RunDailyReview ==
    /\ reviewQueue = <<>>
    /\ DueRevs(nodes, now) # <<>>
    /\ reviewQueue' = DueRevs(nodes, now)
    /\ UNCHANGED <<cognitiveVars, nodes, calls, events, seen, ret>>

\* the user answers the test of the next picked node: the node object is
\* updated, whether the Map still holds it or not
ReviewAnswer(isCorrect) ==
    /\ reviewQueue # <<>>
    /\ reviewQueue' = Tail(reviewQueue)
    /\ nodes' = IF ObjectIndex(nodes, Head(reviewQueue)) = 0 THEN nodes
                ELSE [nodes EXCEPT ![ObjectIndex(nodes, Head(reviewQueue))] =
                                       Reviewed(@, isCorrect, now)]
    /\ UNCHANGED <<cognitiveVars, calls, events, seen, ret>>

(***************************************************************************)
(* SpecNodeIds: documents of any path are modified                         *)
(***************************************************************************)
MaxIdEvents == 2

IdEvent(p) ==
    /\ events < MaxIdEvents
    /\ ProcessFile(p)

NextNodeIds ==
    \/ \E p \in GraphPaths : IdEvent(p)
    \/ \E c \in calls : EmbeddingDone(c)
    \/ \E c \in calls : \E reply \in Replies(c) : LinksDone(c, reply)

SpecNodeIds == Init /\ [][NextNodeIds]_vars

\* C17: the node id is a unique key: two distinct document paths get two
\* distinct ids, so after upserting documents with distinct paths the node
\* map holds one node per document.
C17_OneNodePerDocument ==
    /\ \A p, q \in DOMAIN seen :
          p # q => getNodeIdFromFile(p) # getNodeIdFromFile(q)
    /\ calls = {} => Len(nodes) = Cardinality(DOMAIN seen)

(***************************************************************************)
(* SpecGraph: two documents are modified and reviewed while days pass      *)
(***************************************************************************)
EditedPaths == {<<"n", ".md">>, <<"_", ".md">>}

MaxGraphEvents == 3

MaxGraphDays == 1

GraphEvent(p) ==
    /\ events < MaxGraphEvents
    /\ ProcessFile(p)

GraphDayPasses ==
    /\ now < StartDay + MaxGraphDays
    /\ now' = now + 1
    /\ UNCHANGED <<settings, timerVars, editorVars, questionVars, weightVars,
                   memoryVars, docVars, graphVars, sweepVars, diskVars, ret>>

NextGraph ==
    \/ \E p \in EditedPaths : GraphEvent(p)
    \/ \E c \in calls : EmbeddingDone(c)
    \/ \E c \in calls : \E reply \in Replies(c) : LinksDone(c, reply)
    \/ RunDailyReview
    \/ \E isCorrect \in BOOLEAN : ReviewAnswer(isCorrect)
    \/ GraphDayPasses

SpecGraph == Init /\ [][NextGraph]_vars

\* C18: for every node id, nextReviewDate never moves backward, and it
\* changes only in the step of runDailyReview that reviews that node;
\* modify events leave it unchanged.
C18_ReviewDateForwardOnly ==
    [][\A i \in 1..Len(nodes) :
          /\ nodes'[i].nextReviewDate >= nodes[i].nextReviewDate
          /\ nodes'[i].nextReviewDate # nodes[i].nextReviewDate =>
                /\ reviewQueue # <<>>
                /\ Head(reviewQueue) = nodes[i].rev
                /\ reviewQueue' = Tail(reviewQueue)]_vars

\* C19: once no addNode call for a node id is in flight, the node stored
\* under that id holds the content of the latest modify event of its
\* document, whatever the order in which the requests completed.
C19_LaterEventWins ==
    \A i \in 1..Len(nodes) :
        (\A c \in calls : c.node.id # nodes[i].id) =>
            nodes[i].content = seen[nodes[i].path]

(***************************************************************************)
(* applyDailyDecay as an async function: a call runs from where it stands  *)
(* to its next await in one task of the event loop; the handlers that call *)
(* updateInteraction are tasks of their own                                *)
(***************************************************************************)
RECURSIVE SweepLoop(_, _, _, _)
\* the for-in loop over the keys todo, with the now taken before the loop
SweepLoop(dt, todo, t, st) ==
    IF todo = <<>> THEN dt
    ELSE SweepLoop([dt EXCEPT ![Head(todo)] = Decayed(dt, Head(todo), t, st)],
                   Tail(todo), t, st)

\* a variant that hands control back to the event loop after every record
RunToAwaitYielding(dt, run, st) ==
    IF run.todo = <<>> THEN [data |-> dt, run |-> [run EXCEPT !.pc = "saving"]]
    ELSE [data |-> SweepLoop(dt, <<Head(run.todo)>>, run.at, st),
          run |-> [run EXCEPT !.todo = Tail(@)]]

\* applyDailyDecay from the top of its loop to its only await, saveData
RunToAwait(dt, run, st) ==
    [data |-> SweepLoop(dt, run.todo, run.at, st),
     run |-> [run EXCEPT !.pc = "saving", !.todo = <<>>]]

\* the orders in which for-in may visit the keys of a weight map
KeyOrders(dt) ==
    {o \in UNION {[1..k -> DOMAIN dt] : k \in {Cardinality(DOMAIN dt)}} :
        \A i, j \in DOMAIN o : o[i] = o[j] => i = j}

\* the timer or the command calls applyDailyDecay: the call runs to its
\* first suspension
StartSweep(order) ==
    /\ sweepRun.pc = "idle"
    /\ order \in KeyOrders(data)
    /\ LET r == RunToAwait(data, [pc |-> "loop", at |-> now, todo |-> order],
                           settings)
       IN  data' = r.data /\ sweepRun' = r.run
    /\ preSweep' = data
    /\ sweeps' = sweeps + 1
    /\ IF sweepRun'.pc = "saving"
       THEN disk' = Stringify(data') /\ savedData' = data'
       ELSE UNCHANGED diskVars
    /\ ret' = [op |-> "applyDailyDecay", at |-> now]
    /\ UNCHANGED <<envVars, timerVars, editorVars, questionVars, graphVars,
                   memoryVars, docVars>>

\* the event loop resumes the suspended call: after saveData it returns
SweepResumes ==
    /\ sweepRun.pc # "idle"
    /\ LET r == IF sweepRun.pc = "saving" THEN [data |-> data, run |-> NoSweep]
                ELSE RunToAwait(data, sweepRun, settings)
       IN  data' = r.data /\ sweepRun' = r.run
    /\ IF sweepRun.pc = "loop" /\ sweepRun'.pc = "saving"
       THEN disk' = Stringify(data') /\ savedData' = data'
       ELSE UNCHANGED diskVars
    /\ UNCHANGED <<envVars, timerVars, editorVars, questionVars, graphVars,
                   preSweep, sweeps, memoryVars, docVars, ret>>

(***************************************************************************)
(* SpecExclusive: create, modify and editor-change events around sweeps    *)
(***************************************************************************)
MaxExclusiveSweeps == 1

MaxExclusiveInteractions == 2

MaxExclusiveDays == 1

ExclusiveTick ==
    /\ now < StartDay + MaxExclusiveDays
    /\ Tick(1)

ExclusiveInteraction(f) ==
    /\ f \in DOMAIN data => data[f].interactionCount < MaxExclusiveInteractions
    /\ UpdateInteraction(f)

ExclusiveSweep(order) ==
    /\ sweeps < MaxExclusiveSweeps
    /\ StartSweep(order)

NextExclusive ==
    \/ ExclusiveTick
    \/ \E f \in Files : ExclusiveInteraction(f)
    \/ \E order \in KeyOrders(data) : ExclusiveSweep(order)
    \/ SweepResumes

SpecExclusive == Init /\ [][NextExclusive]_vars

\* the sweep has read a record and has not yet written its last one
MidSweep == sweepRun.pc = "loop"

\* an updateInteraction takes effect in this step
InteractionLands ==
    \E f \in DOMAIN data' :
        \/ f \notin DOMAIN data
        \/ data'[f].interactionCount > data[f].interactionCount

\* C20: no updateInteraction takes effect between the sweep's first read
\* and its last write, so when the sweep reaches its save every record
\* carries the sweep's own time and an interaction count of 0.
C20_SweepExclusive ==
    [][/\ InteractionLands => ~MidSweep
       /\ (sweepRun'.pc = "saving" /\ sweepRun.pc # "saving") =>
             \A f \in DOMAIN data' :
                 /\ data'[f].interactionCount = 0
                 /\ data'[f].lastUpdated = sweepRun'.at]_vars

\* an interaction lands while a sweep of two records waits for its save
C20_Witness ==
    /\ sweepRun.pc = "saving"
    /\ ret.op = "updateInteraction"
    /\ \E f, g \in DOMAIN data :
          /\ data[f].interactionCount = 1
          /\ data[g].interactionCount = 0
          /\ data[g].lastUpdated = sweepRun.at

\* the sequence s begins with the sequence p
IsPrefix(p, s) == Len(p) <= Len(s) /\ \A i \in 1..Len(p) : p[i] = s[i]

\* C21: a modify event for a path that already has a node mutates that
\* node: its content is replaced while its interaction count, its links and
\* its review date carry over from before the edit.
C21_EditKeepsNodeState ==
    [][\A i \in 1..Len(nodes) :
          nodes'[i].rev # nodes[i].rev =>
              /\ nodes'[i].interactions >= nodes[i].interactions
              /\ IsPrefix(nodes[i].links, nodes'[i].links)
              /\ nodes'[i].nextReviewDate = nodes[i].nextReviewDate]_vars

(***************************************************************************)
(* SpecFrame: every DataManager operation on the weight map, around sweeps *)
(***************************************************************************)
MaxFrameTyped == 1

MaxFrameTicks == 1

MaxFrameSweeps == 1

FrameChange ==
    /\ Len(content[activeFile]) < MaxFrameTyped
    /\ EditorChange("a")

\* a create or modify event of the vault
FrameInteraction(f) ==
    /\ f \in DOMAIN data => data[f].interactionCount < MaxFrameTyped
    /\ UpdateInteraction(f)

FrameDuration ==
    /\ clock < LoadSlot + MaxFrameTicks
    /\ DurationTick

\* the detect-stage command, run while the file has no engagement value yet
FrameDetect ==
    /\ activeFile \in DOMAIN data => data[activeFile].previousEngagement = 0
    /\ DetectStage

FrameSweep ==
    /\ sweeps < MaxFrameSweeps
    /\ ApplyDailyDecay

NextFrame ==
    \/ FrameChange
    \/ DebounceExpire
    \/ \E f \in Files : FrameInteraction(f)
    \/ FrameDuration
    \/ FrameDetect
    \/ \E f \in Files : CalculateCurrentWeight(f)
    \/ FrameSweep

SpecFrame == Init /\ [][NextFrame]_vars

\* C22: only applyDailyDecay changes the stored base of a record:
\* updateInteraction, calculateCurrentWeight, calculateEngagement,
\* startInteractionTracking and recordInteractionDuration leave the
\* initialWeight of every existing record as it is, and
\* calculateCurrentWeight changes no state at all.
C22_OnlySweepChangesBase ==
    [][/\ sweeps' = sweeps =>
             \A f \in DOMAIN data :
                 /\ f \in DOMAIN data'
                 /\ data'[f].initialWeight = data[f].initialWeight
       /\ (ret'.op = "calculateCurrentWeight" /\ ret' # ret) =>
             UNCHANGED <<envVars, weightVars, memoryVars, docVars, otherVars>>
      ]_vars

\* a swept record has taken an interaction, a tracked duration and an
\* engagement value, and its weight has been read
C22_Witness ==
    /\ ret.op = "calculateCurrentWeight"
    /\ ret.file \in DOMAIN data
    /\ ret.file \in DOMAIN interactionDurations
    /\ data[ret.file].initialWeight # settings.initialWeight
    /\ data[ret.file].interactionCount > 0
    /\ data[ret.file].previousEngagement # 0
    /\ interactionDurations[ret.file].durations # <<>>

\* C23: findLinksForNode is append-only on the node stored under sourceId:
\* when its request returns, that node's links are the links it had,
\* followed by the returned targets whose confidence is above 0.6 (a
\* confidence of exactly 0.6 is rejected) in the returned order, and no
\* other node changes.
C23_LinksAppendOnly ==
    [][\A c \in calls :
          (c.pc = "linking" /\ c \notin calls') =>
              /\ Len(nodes') = Len(nodes)
              /\ \A i \in 1..Len(nodes) :
                    IF nodes[i].id = c.node.id
                    THEN nodes'[i] =
                            [nodes[i] EXCEPT !.links =
                                @ \o AcceptedTargets(ret'.reply)]
                    ELSE nodes'[i] = nodes[i]]_vars

(***************************************************************************)
(* SpecHysteresis: a sequence of score samples is put to stageTransition   *)
(***************************************************************************)
\* samples from nothing at all up to well above every threshold, none so
\* high that a period-5 average with a sample of zeros passes a threshold
HysteresisScores ==
    [complexity : {0, 2000, 4500}, engagement : {0, 4000, 6500},
     centrality : {0, 7500}, referenceCount : {0, 8}]

QuietScores ==
    [complexity |-> 0, engagement |-> 0, centrality |-> 0, referenceCount |-> 0]

NextHysteresis ==
    \E current \in Transitions, scores \in HysteresisScores :
        StageTransition(current, scores)

SpecHysteresis == Init /\ [][NextHysteresis]_vars

\* C24: a single score sample above a transition's thresholds that follows
\* a sample of zeros does not by itself trigger the transition, for each of
\* novice>intermediate, intermediate>expert and expert>intermediate.
C24_SingleSampleDoesNotTrigger ==
    [][(/\ ret.op = "stageTransition"
        /\ ret.scores = QuietScores
        /\ ret'.op = "stageTransition"
        /\ ret'.current = ret.current) => ret'.stage = ret'.current]_vars

(***************************************************************************)
(* SpecPersist: vault events, sweeps and the settings tab save to          *)
(* data.json, and the plugin is loaded again                               *)
(***************************************************************************)
\* onload: loadSettings, new DataManager, dataManager.loadData.  The
\* memory records and the tracking are not stored and start empty.
Reload ==
    LET loaded == Parse(disk)
    IN  /\ settings' = Assign(DEFAULT_SETTINGS, loaded)
        /\ data' = loaded
        /\ memoryData' = EmptyMap
        /\ interactionDurations' = EmptyMap
        /\ ret' = [op |-> "loadData", data |-> loaded]
        /\ UNCHANGED <<now, preSweep, sweeps, outcomes, vault, content,
                       timerVars, editorVars, runVars, diskVars>>

MaxPersistInteractions == 2

MaxPersistSweeps == 1

PersistInteraction(f) ==
    /\ f \in DOMAIN data => data[f].interactionCount < MaxPersistInteractions
    /\ UpdateInteraction(f)

\* the update-cognitive-weights command, while the weight map holds
\* weight records
PersistSweep ==
    /\ sweeps < MaxPersistSweeps
    /\ DOMAIN data \subseteq Files
    /\ ApplyDailyDecay

NextPersist ==
    \/ \E f \in Files : PersistInteraction(f)
    \/ PersistSweep
    \/ \E a \in AlphaChoices : SetAlpha(a)
    \/ Reload

SpecPersist == Init /\ [][NextPersist]_vars

\* C25: after any sequence of DataManager.saveData calls and settings
\* saves, loadData yields exactly the weight records that were last saved,
\* with no keys other than document paths.
C25_WeightsRoundTrip ==
    ret.op = "loadData" =>
        /\ DOMAIN ret.data \subseteq Files
        /\ ret.data = savedData

(***************************************************************************)
(* SpecInterval: the scheduler's review interval over the weights          *)
(***************************************************************************)
WeightSteps == 100

\* the weights 0, 0.01, ... 1
WeightGrid == {(k * S) \div 100 : k \in 0..WeightSteps}

CalculateReviewInterval(w) ==
    /\ ret' = [op |-> "calculateReviewInterval", weight |-> w,
               interval |-> calculateReviewInterval([base |-> w])]
    /\ UNCHANGED <<envVars, otherVars, weightVars, memoryVars, docVars>>

NextInterval == \E w \in WeightGrid : CalculateReviewInterval(w)

SpecInterval == Init /\ [][NextInterval]_vars

\* C26: the review interval grows with the weight: for w1 <= w2 the
\* interval computed for w1 is at most the interval computed for w2.
C26_IntervalGrowsWithWeight ==
    ret.op = "calculateReviewInterval" =>
        \A w2 \in WeightGrid :
            ret.weight <= w2 =>
                ret.interval <= calculateReviewInterval([base |-> w2])

\* C27: calculateMemoryStrength returns a value of at least 1 in every
\* reachable memory state, and the EF it recomputes is the lower clamp
\* 1.3 for every success history; so the condition strength < 0.8 of
\* getDueFiles holds for no file.
C27_StrengthAtLeastOne ==
    /\ \A f \in Files :
          /\ calculateMemoryStrength(memoryData, f).EF = MinEF
          /\ calculateMemoryStrength(memoryData, f).strength >= S
          /\ ~(calculateMemoryStrength(memoryData, f).strength < 8000)
    /\ ret.op = "calculateMemoryStrength" => ret.EF = MinEF /\ ret.strength >= S

\* the strength of a file that failed twice in a row has been computed:
\* 1.3 * 0.6 * 0.8 is below 1 and the floor applies
C27_Witness ==
    /\ ret.op = "calculateMemoryStrength"
    /\ ret.file \in DOMAIN memoryData
    /\ memoryData[ret.file].consecutiveFailures >= 2
    /\ ~memoryData[ret.file].lastTestResult
    /\ ret.strength = S

\* C28: getDueFiles selects a file that has no memory record if and only if
\* its current weight is above 0.6; a never-tested file of weight 0.6 or
\* less, a file without a weight record (weight 0) included, is not due.
C28_NeverTestedDueIffWeight ==
    (ret.op = "getDueFiles" /\ ret.at = now) =>
        \A f \in DOMAIN vault \ DOMAIN memoryData :
            /\ f \in ret.due <=>
                  calculateCurrentWeight(data, f, now, settings) > 6000
            /\ f \notin DOMAIN data => f \notin ret.due

\* a never-tested file of weight above 0.6 is selected while a file with
\* no weight record is not
C28_Witness ==
    /\ ret.op = "getDueFiles"
    /\ ret.at = now
    /\ DueFile \notin DOMAIN memoryData
    /\ DueFile \in ret.due
    /\ \E f \in DOMAIN vault \ DOMAIN memoryData :
          f \notin DOMAIN data /\ f \notin ret.due

(***************************************************************************)
(* SpecReference: the stage of scores on and next to the thresholds, under *)
(* every referenceCount                                                    *)
(***************************************************************************)
\* hundredths on both sides of the threshold (0.7) and a score two steps of
\* the arithmetic above it
ComplexityNear == {6900, 7000, 7002, 7100}

EngagementNear == {3900, 4000, 4002, 4100}

CentralityNear == {2900, 3000, 3002, 6000, 6002, 6100}

ReferenceScores ==
    [complexity : ComplexityNear, engagement : EngagementNear,
     centrality : CentralityNear, referenceCount : 0..MaxReferenceCount]

NextReference == \E scores \in ReferenceScores : DetectCognitiveStage(scores)

SpecReference == Init /\ [][NextReference]_vars

\* a score given to two decimals
IsHundredths(scores) ==
    /\ scores.complexity % 100 = 0
    /\ scores.engagement % 100 = 0
    /\ scores.centrality % 100 = 0

SameStageForEveryCount(scores, stage) ==
    \A r \in 0..MaxReferenceCount :
        detectCognitiveStage([scores EXCEPT !.referenceCount = r]) = stage

MaxClicks == 2

SessionOpen == batch.state = "done" /\ batch.opened

\* ReviewModal.handleSelect(question, selectedIndex), with isCorrect for
\* selectedIndex === question.correctIndex
HandleSelect(f, isCorrect) ==
    /\ SessionOpen
    /\ f \in batch.session
    /\ UpdateTestResult(f, isCorrect)

\* the close button of the modal
CloseSession ==
    /\ SessionOpen
    /\ batch' = [batch EXCEPT !.state = "closed"]
    /\ ret' = [op |-> "close"]
    /\ UNCHANGED <<envVars, timerVars, editorVars, graphVars, sweepVars,
                   diskVars, gen, weightVars, memoryVars, docVars>>

SessionClick(f, isCorrect) ==
    /\ Len(outcomes[f]) < MaxClicks
    /\ HandleSelect(f, isCorrect)

NextSession ==
    \/ \E f \in Files : QuestionInteraction(f)
    \/ QuestionReview
    \/ \E f \in Files, kind \in ResponseKinds : Respond(f, kind)
    \/ \E f \in Files : RetryDelayOver(f)
    \/ FinishReview
    \/ \E f \in Files, isCorrect \in BOOLEAN : SessionClick(f, isCorrect)
    \/ CloseSession

SpecSession == Init /\ [][NextSession]_vars

\* C30: in a review session at most one outcome is recorded per presented
\* question: after the first click on one of its options further clicks do
\* not call updateTestResult again, so the question adds at most one entry
\* to the file's success history.
C30_OneOutcomePerQuestion ==
    batch.state \in {"done", "closed"} =>
        \A f \in batch.session :
            /\ Len(outcomes[f]) <= 1
            /\ f \in DOMAIN memoryData =>
                   Len(memoryData[f].historicalSuccessRate) <= 1

====
